---- MODULE Spec2Model ----
(***************************************************************************)
(* A model of the greenlet coroutine runtime (greenlet.cpp, TGreenlet.cpp, *)
(* TUserGreenlet.cpp, TMainGreenlet.cpp, TStackState.cpp).                 *)
(*                                                                         *)
(* Greenlets are numbered: 1..NThreads are the main greenlets (the main    *)
(* greenlet of thread t is t), the following MaxUser numbers are the user  *)
(* greenlets, allocated in order.  0 is the null pointer.                  *)
(*                                                                         *)
(* The native stacks of the threads are consecutive ranges of one address  *)
(* space; a stack grows towards lower addresses.  Addresses 0 and 1 are    *)
(* never part of a stack: 0 is nullptr and 1 is the marker (char* )1 that   *)
(* set_active() and make_main() store in _stack_start.                     *)
(***************************************************************************)
EXTENDS Integers, Sequences, FiniteSets, TLC

\* ------------------------------------------------------------------ bounds
NThreads == 2
MaxUser == 2
StackSize == 3
\* operations of the one thread that runs in Spec
MaxOps == 6
\* operations of thread 1 and of thread 2 in SpecMT and SpecStub
MaxOpsT1 == 6
MaxOpsT2 == 2
\* operations of the one thread that runs in SpecKill
MaxOpsKill == 7
\* operations of each thread in SpecQueue
MaxOpsQueue == 3
\* operations of the one thread that runs in SpecRace
MaxOpsRace == 10

\* --------------------------------------------------------------- constants
NULL == 0
ActiveMark == 1
\* the lowest address of a stack: the first one that is no marker
StackBase == ActiveMark + 1

Threads == 1..NThreads
Mains == 1..NThreads
Users == (NThreads + 1)..(NThreads + MaxUser)
Greenlets == Mains \cup Users
\* who can hold thread_states_to_destroy_lock besides the ending threads:
\* the pending call DestroyQueueWithGIL
Drainer == NThreads + 1
Addrs == StackBase..(StackBase + NThreads * StackSize - 1)
\* (char* )-1, "the largest possible address"
MainStop == StackBase + NThreads * StackSize + 1
StackTop(t) == StackBase + t * StackSize

\* ---------------------------------------------------------- python objects
\* Every object is a record of the same shape, so that any two can be compared.
PyNULL == [k |-> "NULL", n |-> 0, items |-> <<>>]
PyNone == [k |-> "None", n |-> 0, items |-> <<>>]
PyInt(i) == [k |-> "int", n |-> i, items |-> <<>>]
PyTuple(xs) == [k |-> "tuple", n |-> 0, items |-> xs]
PyDict(sz) == [k |-> "dict", n |-> sz, items |-> <<>>]
PyExcValue(ty) == [k |-> ty, n |-> 0, items |-> <<>>]

\* PyErr_Occurred() state of a thread: type "" means no error is set
NoErr == [type |-> "", val |-> PyNULL]
PyErr(ty) == [type |-> ty, val |-> PyExcValue(ty)]

EmptyArgs == [args |-> PyNULL, kwargs |-> PyNULL]
ArgsOf(a, kw) == [args |-> a, kwargs |-> kw]
ArgsBool(sa) == sa.args # PyNULL \/ sa.kwargs # PyNULL

\* PythonState(): no context, no top frame, recursion_depth 0
NoPythonState == [context |-> NULL, top_frame |-> NULL, recursion_depth |-> 0]
\* ExceptionState::clear().  exc_info is a pointer: NULL, 1 for the
\* exc_state of the thread state itself, 2 for another exception stack item.
NoExceptionState == [exc_info |-> NULL, exc_state |-> NULL]

VARIABLES
    stack_start, stack_stop, stack_copy, stack_prev,
    parent, main_greenlet, switch_args, run_callable, created,
    thread_state, current, pyerr, sp, mem,
    frames, fx, fy, fpc,
    snap, put_back, run_calls, boots, event, ub, aborted, ops,
    run_attr, gone, deleteme, thread_states_to_destroy, nomem,
    thread_states_to_destroy_lock, exit_pc, drain_pc, to_destroy,
    pending_calls, destroyed, tracefunc, trace_log,
    tstate, python_state, exception_state, no_payload

vars == <<stack_start, stack_stop, stack_copy, stack_prev,
          parent, main_greenlet, switch_args, run_callable, created,
          thread_state, current, pyerr, sp, mem,
          frames, fx, fy, fpc,
          snap, put_back, run_calls, boots, event, ub, aborted, ops,
          run_attr, gone, deleteme, thread_states_to_destroy, nomem,
          thread_states_to_destroy_lock, exit_pc, drain_pc, to_destroy,
          pending_calls, destroyed, tracefunc, trace_log,
          tstate, python_state, exception_state, no_payload>>

\* The whole program state as one record, so that the C++ functions can be
\* written as operators from state to state and composed.
St ==
    [stack_start |-> stack_start, stack_stop |-> stack_stop,
     stack_copy |-> stack_copy, stack_prev |-> stack_prev,
     parent |-> parent, main_greenlet |-> main_greenlet,
     switch_args |-> switch_args, run_callable |-> run_callable,
     created |-> created, thread_state |-> thread_state,
     current |-> current, pyerr |-> pyerr, sp |-> sp, mem |-> mem,
     frames |-> frames, fx |-> fx, fy |-> fy, fpc |-> fpc,
     snap |-> snap, put_back |-> put_back, run_calls |-> run_calls, boots |-> boots,
     event |-> event, ub |-> ub, aborted |-> aborted, ops |-> ops,
     run_attr |-> run_attr, gone |-> gone, deleteme |-> deleteme,
     thread_states_to_destroy |-> thread_states_to_destroy, nomem |-> nomem,
     thread_states_to_destroy_lock |-> thread_states_to_destroy_lock,
     exit_pc |-> exit_pc, drain_pc |-> drain_pc, to_destroy |-> to_destroy,
     pending_calls |-> pending_calls, destroyed |-> destroyed,
     tracefunc |-> tracefunc, trace_log |-> trace_log,
     tstate |-> tstate, python_state |-> python_state,
     exception_state |-> exception_state, no_payload |-> no_payload]

Install(s) ==
    /\ stack_start' = s.stack_start
    /\ stack_stop' = s.stack_stop
    /\ stack_copy' = s.stack_copy
    /\ stack_prev' = s.stack_prev
    /\ parent' = s.parent
    /\ main_greenlet' = s.main_greenlet
    /\ switch_args' = s.switch_args
    /\ run_callable' = s.run_callable
    /\ created' = s.created
    /\ thread_state' = s.thread_state
    /\ current' = s.current
    /\ pyerr' = s.pyerr
    /\ sp' = s.sp
    /\ mem' = s.mem
    /\ frames' = s.frames
    /\ fx' = s.fx
    /\ fy' = s.fy
    /\ fpc' = s.fpc
    /\ snap' = s.snap
    /\ put_back' = s.put_back
    /\ run_calls' = s.run_calls
    /\ boots' = s.boots
    /\ event' = s.event
    /\ ub' = s.ub
    /\ aborted' = s.aborted
    /\ ops' = s.ops
    /\ run_attr' = s.run_attr
    /\ gone' = s.gone
    /\ deleteme' = s.deleteme
    /\ thread_states_to_destroy' = s.thread_states_to_destroy
    /\ nomem' = s.nomem
    /\ thread_states_to_destroy_lock' = s.thread_states_to_destroy_lock
    /\ exit_pc' = s.exit_pc
    /\ drain_pc' = s.drain_pc
    /\ to_destroy' = s.to_destroy
    /\ pending_calls' = s.pending_calls
    /\ destroyed' = s.destroyed
    /\ tracefunc' = s.tracefunc
    /\ trace_log' = s.trace_log
    /\ tstate' = s.tstate
    /\ python_state' = s.python_state
    /\ exception_state' = s.exception_state
    /\ no_payload' = s.no_payload

\* What the last operation did (history variable `event`):
\*   op      "create", "setparent", "push", "switch", "throw",
\*           "getattr" (the run attribute was resolved), "finish"
\*   thread, caller   the thread and the greenlet that ran the operation
\*   named, given, exc   the greenlet it was called on, the switch arguments
\*           (for "finish": the value run returned) and the exception type
\*           handed to throw (for "finish": raised by run)
\*   kind    how it ended: "resume" (a suspended greenlet got control),
\*           "start" (run was called in a new greenlet), "noop" (returned to
\*           the caller without a stack switch), "error" (raised to the
\*           caller without a stack switch), "stub" (resolving run),
\*           "abort" (Py_FatalError), "done", "ub" (a null pointer was
\*           used), "xthread" (a thread moved its stack pointer into a
\*           greenlet of another thread)
\*   into, origin   the greenlet holding control afterwards and the one
\*           that g_switchstack_success found current before
\*   value, raised  what the call that got control returns or raises
\*   waited  the greenlet the resumed call had been called on
\*   retried g_initialstub found its greenlet started and g_switch retried
\*   arg     the greenlet handed to the operation (the new parent)
NoEvent ==
    [op |-> "none", thread |-> 0, caller |-> 0, named |-> 0,
     given |-> EmptyArgs, exc |-> "", kind |-> "none", into |-> 0,
     origin |-> 0, value |-> PyNULL, raised |-> "", waited |-> 0,
     retried |-> FALSE, arg |-> 0]

Cx(op, t, caller, named, given, exc) ==
    [NoEvent EXCEPT !.op = op, !.thread = t, !.caller = caller,
                    !.named = named, !.given = given, !.exc = exc]

\* Pending calls of a greenlet, innermost last.
\*   "wait"  suspended inside g_switchstack; via tells which function made
\*           the call: green_switch ("switch"), throw_greenlet ("throw") or
\*           the parent loop of inner_bootstrap ("finish")
\*   "stub"  inside g_initialstub, resolving the run attribute of target
Frame(k, via, this, target, twm, args, err, usersp) ==
    [k |-> k, via |-> via, this |-> this, target |-> target, twm |-> twm,
     args |-> args, err |-> err, sp |-> usersp]

\* ------------------------------------------------------------------- Init
\* StackState::make_main() for the main greenlets, StackState() and
\* UserGreenlet() fields for the not yet allocated user greenlets.
Boot(budget) ==
    /\ stack_start = [g \in Greenlets |-> IF g \in Mains THEN ActiveMark ELSE NULL]
    /\ stack_stop = [g \in Greenlets |-> IF g \in Mains THEN MainStop ELSE NULL]
    /\ stack_copy = [g \in Greenlets |-> <<>>]
    /\ stack_prev = [g \in Greenlets |-> NULL]
    /\ parent = [g \in Greenlets |-> NULL]
    /\ main_greenlet = [g \in Greenlets |-> IF g \in Mains THEN g ELSE NULL]
    /\ switch_args = [g \in Greenlets |-> EmptyArgs]
    /\ run_callable = [g \in Greenlets |-> "none"]
    /\ created = [g \in Greenlets |-> g \in Mains]
    /\ thread_state = [m \in Mains |-> m]
    /\ current = [t \in Threads |-> t]
    /\ pyerr = [t \in Threads |-> NoErr]
    /\ sp = [t \in Threads |-> StackTop(t)]
    /\ mem = [a \in Addrs |-> 0]
    /\ frames = [g \in Greenlets |-> <<>>]
    /\ fx = [g \in Greenlets |-> PyNULL]
    /\ fy = [g \in Greenlets |-> PyNULL]
    /\ fpc = [g \in Greenlets |-> "none"]
    /\ snap = [g \in Greenlets |-> <<>>]
    /\ put_back = 0
    /\ run_calls = [g \in Greenlets |-> 0]
    /\ boots = [g \in Greenlets |-> 0]
    /\ event = NoEvent
    /\ ub = FALSE
    /\ aborted = FALSE
    /\ ops = budget
    /\ run_attr = [g \in Greenlets |-> FALSE]
    /\ gone = [g \in Greenlets |-> FALSE]
    /\ deleteme = [t \in Threads |-> <<>>]
    /\ thread_states_to_destroy = <<>>
    /\ nomem = "no"
    /\ thread_states_to_destroy_lock = NULL
    /\ exit_pc = [t \in Threads |-> "run"]
    /\ drain_pc = "idle"
    /\ to_destroy = NULL
    /\ pending_calls = 0
    /\ destroyed = [t \in Threads |-> 0]
    /\ tracefunc = [t \in Threads |-> "none"]
    /\ trace_log = [t \in Threads |-> <<>>]
    /\ tstate = [t \in Threads |->
                    [context |-> NULL, frame |-> t, recursion_depth |-> 0,
                     exc_info |-> 1, exc_state |-> NULL]]
    /\ python_state = [g \in Greenlets |-> NoPythonState]
    /\ exception_state = [g \in Greenlets |-> NoExceptionState]
    /\ no_payload = FALSE

\* one thread runs greenlets, the other only exists
Init == Boot([t \in Threads |-> IF t = 1 THEN MaxOps ELSE 0])

\* ------------------------------------------------------------- StackState
started(s, g) == s.stack_stop[g] # NULL
active(s, g) == s.stack_start[g] # NULL
main(s, g) == s.stack_stop[g] = MainStop
\* started and no longer active: the run function ended
dead(s, g) == started(s, g) /\ ~active(s, g)
stack_saved(s, g) == Len(s.stack_copy[g])

MemAt(s, a) == IF a \in Addrs THEN s.mem[a] ELSE 0

\* StackState() : the inactive, unstarted state
ResetStackState(s, g) ==
    [s EXCEPT !.stack_start[g] = NULL, !.stack_stop[g] = NULL,
              !.stack_copy[g] = <<>>, !.stack_prev[g] = NULL]

\* StackState(mark, current) : started but inactive, chained to current
\* (or to current's predecessor when current is dying)
NewStackState(s, g, mark, cur) ==
    [s EXCEPT !.stack_start[g] = NULL, !.stack_stop[g] = mark,
              !.stack_copy[g] = <<>>,
              !.stack_prev[g] = IF s.stack_start[cur] # NULL
                                THEN cur ELSE s.stack_prev[cur]]

set_active(s, g) == [s EXCEPT !.stack_start[g] = ActiveMark]

\* fault: _stack_start is kept (C12 must notice)
set_inactive_keeps_start(s, g) == [s EXCEPT !.stack_copy[g] = <<>>]

\* set_inactive: the heap copy is freed with it
set_inactive(s, g) ==
    [s EXCEPT !.stack_start[g] = NULL, !.stack_copy[g] = <<>>]

\* fault: nothing is saved (C2 must notice)
copy_stack_to_heap_up_to_nothing(s, g, stop) == s

\* fault: the bytes already saved are copied from the stack once more
copy_stack_to_heap_up_to_again(s, g, stop) ==
    LET sz1 == Len(s.stack_copy[g])
        sz2 == stop - s.stack_start[g]
    IN  IF sz2 > sz1
        THEN [s EXCEPT !.stack_copy[g] =
                 [i \in 1..sz2 |-> MemAt(s, s.stack_start[g] + i - 1)]]
        ELSE s

\* Save more of g's stack into the heap, at least up to stop.  When
\* PyMem_Realloc fails it returns -1: nomem becomes "failed".
copy_stack_to_heap_up_to(s, g, stop) ==
    LET sz1 == Len(s.stack_copy[g])
        sz2 == stop - s.stack_start[g]
    IN  IF sz2 > sz1
        THEN IF s.nomem # "no"
             THEN [s EXCEPT !.nomem = "failed"]
             ELSE [s EXCEPT !.stack_copy[g] =
                      [i \in 1..sz2 |->
                          IF i <= sz1 THEN s.stack_copy[g][i]
                          ELSE MemAt(s, s.stack_start[g] + i - 1)]]
        ELSE s

RECURSIVE SaveOwners(_, _, _)
\* the loop and the final partial save of copy_stack_to_heap
SaveOwners(s, owner, this) ==
    IF s.nomem = "failed" THEN s
    ELSE IF owner = NULL THEN [s EXCEPT !.ub = TRUE]
    ELSE IF s.stack_stop[owner] < s.stack_stop[this]
    THEN SaveOwners(copy_stack_to_heap_up_to(s, owner, s.stack_stop[owner]),
                    s.stack_prev[owner], this)
    ELSE IF owner # this
    THEN copy_stack_to_heap_up_to(s, owner, s.stack_stop[this])
    ELSE s

copy_stack_to_heap(s, this, stackref, cur) ==
    IF s.stack_start[cur] = NULL
    THEN SaveOwners(s, s.stack_prev[cur], this)
    ELSE SaveOwners([s EXCEPT !.stack_start[cur] = stackref], cur, this)

\* fault: the first candidate is taken, whatever its stack_stop
FindOwner_first(s, owner, this) == owner

RECURSIVE FindOwner_at_or_above(_, _, _)
\* fault: a candidate whose stack_stop equals this one's is kept
FindOwner_at_or_above(s, owner, this) ==
    IF owner # NULL /\ s.stack_stop[owner] < s.stack_stop[this]
    THEN FindOwner_at_or_above(s, s.stack_prev[owner], this)
    ELSE owner

RECURSIVE FindOwner(_, _, _)
\* "find greenlet with more stack"
FindOwner(s, owner, this) ==
    IF owner # NULL /\ s.stack_stop[owner] <= s.stack_stop[this]
    THEN FindOwner(s, s.stack_prev[owner], this)
    ELSE owner

copy_heap_to_stack(s, this, cur) ==
    LET n == Len(s.stack_copy[this])
        base == s.stack_start[this]
        dst == {base + i - 1 : i \in 1..n}
        s1 == IF n # 0
              THEN [s EXCEPT !.mem = [a \in Addrs |->
                                        IF a \in dst
                                        THEN s.stack_copy[this][a - base + 1]
                                        ELSE s.mem[a]],
                             !.stack_copy[this] = <<>>,
                             !.ub = s.ub \/ ~(dst \subseteq Addrs)]
              ELSE s
        first == IF s1.stack_start[cur] = NULL THEN s1.stack_prev[cur] ELSE cur
    IN  [s1 EXCEPT !.stack_prev[this] = FindOwner(s1, first, this)]

\* The bytes greenlet g owns in [stack_start, stack_stop): the first
\* stack_saved of them are in the heap copy, the rest on the native stack.
RegionTop(s, g) == IF main(s, g) THEN StackTop(g) ELSE s.stack_stop[g]
RegionBytes(s, g) ==
    [i \in 1..(RegionTop(s, g) - s.stack_start[g]) |->
        IF i <= Len(s.stack_copy[g]) THEN s.stack_copy[g][i]
        ELSE MemAt(s, s.stack_start[g] + i - 1)]

\* ----------------------------------------------------- payload conversions
\* operator<<=(OwnedObject&, SwitchingArgs&): what switch(*args, **kwargs)
\* delivers
ResultOfArgs(sa) ==
    IF sa.kwargs = PyNULL THEN sa.args
    ELSE IF sa.kwargs.n = 0 THEN sa.args
    ELSE IF Len(sa.args.items) = 0 THEN sa.kwargs
    ELSE PyTuple(<<sa.args, sa.kwargs>>)

\* fault: a 1-tuple is not unwrapped (C10 must notice)
single_result_whole(o) == o

single_result(o) ==
    IF o.k = "tuple" /\ Len(o.items) = 1 THEN o.items[1] ELSE o

\* SwitchingArgs::operator<<=(OwnedObject&) and (PyObject* )
ArgsFromObject(o) == [args |-> o, kwargs |-> PyNULL]

release_args(s, g) == [s EXCEPT !.switch_args[g] = EmptyArgs]

\* fault: the arguments stay in the dead greenlet (C7 must notice)
MoveArgs_nothing(s, to, from) == s

\* target->args() <<= this->args()  (a no-op when both are the same object)
MoveArgs(s, to, from) ==
    IF to = from THEN s
    ELSE [s EXCEPT !.switch_args[to] = s.switch_args[from],
                   !.switch_args[from] = EmptyArgs]

\* fault: GreenletExit is not caught (C16 must notice)
g_handle_exit_uncaught(s, t, result) ==
    IF result # PyNULL THEN <<s, PyTuple(<<result>>)>> ELSE <<s, PyNULL>>

\* g_handle_exit: a pair <<state, result>>
g_handle_exit(s, t, result) ==
    IF result = PyNULL /\ s.pyerr[t].type = "GreenletExit"
    THEN <<[s EXCEPT !.pyerr[t] = NoErr],
           IF s.pyerr[t].val = PyNULL THEN PyNone ELSE s.pyerr[t].val>>
    ELSE IF result # PyNULL
    THEN <<s, PyTuple(<<result>>)>>
    ELSE <<s, PyNULL>>

\* ------------------------------------------------------- thread affinity
RECURSIVE find_main_greenlet_in_lineage(_, _)
find_main_greenlet_in_lineage(s, g) ==
    IF g \in Mains THEN g
    ELSE IF started(s, g) THEN s.main_greenlet[g]
    ELSE IF s.parent[g] = NULL THEN NULL
    ELSE find_main_greenlet_in_lineage(s, s.parent[g])

\* Greenlet::thread_state(): NULL or the thread (threads and their
\* ThreadState objects are numbered alike)
ThreadStateOf(s, g) ==
    IF g \in Mains THEN s.thread_state[g]
    ELSE IF s.main_greenlet[g] = NULL THEN NULL
    ELSE s.thread_state[s.main_greenlet[g]]

\* fault: the thread of the target is not compared (C4 must notice)
check_switch_allowed_any_thread(s, t, g) ==
    IF find_main_greenlet_in_lineage(s, g) = NULL
    THEN "cannot switch to a garbage collected greenlet"
    ELSE ""

\* check_switch_allowed called on thread t: "" when allowed, otherwise the
\* message of the GreenletError it throws
check_switch_allowed(s, t, g) ==
    LET main_gl == find_main_greenlet_in_lineage(s, g)
        current_main_greenlet == t
    IN  IF main_gl = NULL
        THEN "cannot switch to a garbage collected greenlet"
        ELSE IF s.thread_state[main_gl] = NULL
        THEN "cannot switch to a different thread (which happens to have exited)"
        ELSE IF \/ current_main_greenlet # main_gl
                \/ (s.main_greenlet[g] # NULL /\ current_main_greenlet # main_gl)
                \/ s.thread_state[current_main_greenlet] = NULL
        THEN "cannot switch to a different thread"
        ELSE ""

\* ---------------------------------------------------------- g_switchstack
\* The result of the switching operators: the new state and how the call
\* ended for the code that made it.
\*   "pivot"  the stack was switched into an active greenlet (into)
\*   "start"  the stack was switched into a new greenlet (slp_switch gave 1)
\*   "ret"    no stack switch, the call returns val to its caller
\*   "throw"  no stack switch, the call throws PyErrOccurred
\*   "stub"   g_initialstub is resolving the run attribute
\*   "ub"     undefined behaviour: a null pointer was used
\*   "xthread"  undefined behaviour: the stack pointer of the thread was
\*            moved into the stack of a greenlet of another thread
\*   "overflow"  the native stack of the model is exhausted (StackSize)
Res(s, k, into, origin, val) ==
    [s |-> s, k |-> k, into |-> into, origin |-> origin, val |-> val]

\* slp_save_state run on the stack of cur, which is being left: the frames
\* of g_switchstack and slp_switch end at stackref; the bytes of cur above
\* it are remembered in snap
slp_save_state(s, t, tgt, cur, stackref) ==
    copy_stack_to_heap(
        [s EXCEPT !.mem = [a \in Addrs |->
                              IF a = stackref THEN s.current[t] ELSE s.mem[a]],
                  !.snap[cur] = IF active(s, cur)
                                THEN [i \in 1..(RegionTop(s, cur) - stackref) |->
                                         IF i = 1 THEN s.current[t]
                                         ELSE MemAt(s, stackref + i - 1)]
                                ELSE @],
        tgt, stackref, cur)

\* the stack pointer moves to the stack of tgt; slp_restore_state
slp_restore_state(s, t, tgt, cur, stackref) ==
    IF ~active(s, tgt)
    THEN [s EXCEPT !.sp[t] = stackref, !.put_back = 0]
    ELSE copy_heap_to_stack([s EXCEPT !.sp[t] = s.stack_start[tgt],
                                      !.put_back = Len(s.stack_copy[tgt])],
                            tgt, cur)

\* fault: the context of the thread is left as it is (C38 must notice)
python_state_restore_no_context(s, g, t) ==
    [s EXCEPT !.tstate[t].frame = s.python_state[g].top_frame,
              !.tstate[t].recursion_depth = s.python_state[g].recursion_depth,
              !.python_state[g].context = NULL,
              !.python_state[g].top_frame = NULL]

\* PythonState::operator<< (Python 3.9: context, recursion_depth, frame)
python_state_save(s, g, t) ==
    [s EXCEPT !.python_state[g] =
        [context |-> s.tstate[t].context,
         top_frame |-> s.tstate[t].frame,
         recursion_depth |-> s.tstate[t].recursion_depth]]

\* PythonState::operator>> : context and top frame are given away
python_state_restore(s, g, t) ==
    [s EXCEPT !.tstate[t].context = s.python_state[g].context,
              !.tstate[t].frame = s.python_state[g].top_frame,
              !.tstate[t].recursion_depth = s.python_state[g].recursion_depth,
              !.python_state[g].context = NULL,
              !.python_state[g].top_frame = NULL]

\* ExceptionState::operator<<
exception_state_save(s, g, t) ==
    [s EXCEPT !.exception_state[g] =
        [exc_info |-> s.tstate[t].exc_info,
         exc_state |-> s.tstate[t].exc_state]]

\* ExceptionState::operator>> : a null exc_info becomes the address of the
\* exc_state of the thread state; the saved state is cleared
exception_state_restore(s, g, t) ==
    [s EXCEPT !.tstate[t].exc_state = s.exception_state[g].exc_state,
              !.tstate[t].exc_info =
                  IF s.exception_state[g].exc_info # NULL
                  THEN s.exception_state[g].exc_info ELSE 1,
              !.exception_state[g] = NoExceptionState]

\* g_switchstack_success: the saved state of tgt is written into the thread
\* state of the running thread, and the thread state that tgt belongs to
\* gets tgt as its current greenlet.  Running tgt on a thread other than
\* its own is undefined behaviour.
g_switchstack_success(s, t, ts, tgt, cur, fresh) ==
    Res([exception_state_restore(python_state_restore(s, tgt, t), tgt, t)
            EXCEPT !.current[ts] = tgt, !.ub = s.ub \/ ts # t],
        IF ts # t THEN "xthread"
        ELSE IF s.ub THEN "ub" ELSE IF fresh THEN "start" ELSE "pivot",
        tgt, cur, PyNULL)

\* fault: a failed slp_switch is taken for a successful one (C17 must
\* notice)
slp_switched_anyway(sv, t, ts, tgt, cur, stackref, fresh) ==
    g_switchstack_success(slp_restore_state(sv, t, tgt, cur, stackref),
                          t, ts, tgt, cur, fresh)

\* g_switchstack after slp_switch saved the state (sv): a negative result
\* of slp_switch ends in Py_FatalError
slp_switched(sv, t, ts, tgt, cur, stackref, fresh) ==
    IF sv.nomem = "failed"
    THEN Res([sv EXCEPT !.aborted = TRUE], "abort", tgt, cur, PyNULL)
    ELSE g_switchstack_success(slp_restore_state(sv, t, tgt, cur, stackref),
                               t, ts, tgt, cur, fresh)

\* slp_switch: save, move the stack pointer, restore
slp_switch(s, t, ts, tgt, cur, stackref) ==
    slp_switched(slp_save_state(s, t, tgt, cur, stackref),
                 t, ts, tgt, cur, stackref, ~active(s, tgt))

\* g_switchstack run by thread t for target tgt.  no_payload records that
\* assert(this->args() || PyErr_Occurred()) did not hold at some call (the
\* assertion is compiled out of a release build).
g_switchstack(s0, t, tgt) ==
    LET s == [s0 EXCEPT !.no_payload =
                 @ \/ (~ArgsBool(s0.switch_args[tgt]) /\ s0.pyerr[t].type = "")]
    IN
    IF ThreadStateOf(s, tgt) = NULL
    THEN Res([s EXCEPT !.ub = TRUE], "ub", tgt, NULL, PyNULL)
    ELSE IF s.current[ThreadStateOf(s, tgt)] = tgt
    THEN Res(s, "same", tgt, tgt, PyNULL)
    ELSE IF s.sp[t] - 1 < StackTop(t) - StackSize
    THEN Res(s, "overflow", tgt, NULL, PyNULL)
    ELSE slp_switch(exception_state_save(
                        python_state_save(s, s.current[ThreadStateOf(s, tgt)], t),
                        s.current[ThreadStateOf(s, tgt)], t),
                    t, ThreadStateOf(s, tgt), tgt,
                    s.current[ThreadStateOf(s, tgt)], s.sp[t] - 1)

\* ------------------------------------------------------------ switching
Top(q) == q[Len(q)]
Pop_(q) == SubSeq(q, 1, Len(q) - 1)

\* The call of kind via made by greenlet g returns to the user code of g:
\* green_switch and throw_greenlet apply single_result; green_switch turns
\* a NULL result without an exception into a GreenletError.
EndInUser(s, t, g, via, res, cx, kind, origin, waited) ==
    LET raised == IF s.pyerr[t].type # "" THEN s.pyerr[t].type
                  ELSE IF res = PyNULL
                  THEN (IF via = "switch" THEN "GreenletError" ELSE "SystemError")
                  ELSE ""
        value == IF raised = "" THEN single_result(res) ELSE PyNULL
        isf == s.run_callable[g] = "f" /\ s.fpc[g] \in {"start", "wait"}
        k2 == IF kind = "noop" /\ raised # "" THEN "error" ELSE kind
    IN  Res([s EXCEPT !.pyerr[t] = NoErr,
                      !.fpc[g] = IF ~isf THEN @
                                 ELSE IF raised = "" THEN "ret" ELSE "raise",
                      !.fx[g] = IF isf /\ raised # "" THEN PyExcValue(raised) ELSE @,
                      !.fy[g] = IF isf /\ raised = "" THEN value ELSE @,
                      !.event = [cx EXCEPT !.kind = k2, !.into = g,
                                           !.origin = origin, !.value = value,
                                           !.raised = raised, !.waited = waited]],
            k2, g, origin, value)

\* ------------------------------------------------------------- lifecycle
\* Greenlet::deactivate_and_free: the saved stack and the Python frames of
\* an active greenlet are thrown away
deactivate_and_free(s, g) ==
    IF ~active(s, g) THEN s
    ELSE [ResetStackState(s, g) EXCEPT !.frames[g] = <<>>, !.fpc[g] = "ended"]

\* UserGreenlet::murder_in_place and Greenlet::murder_in_place
murder_in_place(s, g) ==
    deactivate_and_free(IF g \in Users
                        THEN [s EXCEPT !.main_greenlet[g] = NULL] ELSE s, g)

\* UserGreenlet::was_running_in_dead_thread and
\* MainGreenlet::was_running_in_dead_thread
was_running_in_dead_thread(s, g) ==
    IF g \in Mains THEN s.thread_state[g] = NULL
    ELSE s.main_greenlet[g] # NULL /\ ThreadStateOf(s, g) = NULL

\* _green_not_dead: a pair <<state, result>>
green_not_dead(s, g) ==
    IF was_running_in_dead_thread(s, g)
    THEN <<deactivate_and_free(s, g), FALSE>>
    ELSE <<s, active(s, g) \/ ~started(s, g)>>

\* The references to the object g that the model knows of: it is the
\* current greenlet of a thread, the parent of a greenlet, on a deleteme
\* list, or the greenlet or saved parent of a pending call.
Referenced(s, g) ==
    \/ \E t \in Threads : s.current[t] = g
    \/ \E c \in Greenlets : s.created[c] /\ ~s.gone[c] /\ s.parent[c] = g
    \/ \E t \in Threads : \E i \in 1..Len(s.deleteme[t]) : s.deleteme[t][i] = g
    \/ \E c \in Greenlets : \E i \in 1..Len(s.frames[c]) :
          s.frames[c][i].this = g \/ s.frames[c][i].target = g

\* the end of green_dealloc: ~UserGreenlet, ~StackState and tp_free
tp_free(s, g) ==
    [ResetStackState(s, g) EXCEPT
        !.gone[g] = TRUE, !.parent[g] = NULL, !.main_greenlet[g] = NULL,
        !.switch_args[g] = EmptyArgs, !.frames[g] = <<>>, !.fpc[g] = "none",
        !.run_attr[g] = FALSE]

\* _green_dealloc_kill_started_non_main_greenlet after
\* deallocing_greenlet_in_thread, and the rest of green_dealloc, run by
\* greenlet ge: ~ParentIsCurrentGuard puts the parent back, the saved
\* exception is restored; a greenlet that got a reference meanwhile is
\* resurrected, one that is still active is leaked, any other is freed
DeallocTail(s, t, ge, g, guarded, oldparent, saved, cx, kind, origin) ==
    Res([(IF \/ Referenced([s EXCEPT !.parent[g] = IF guarded THEN oldparent ELSE @], g)
             \/ active(s, g)
          THEN [s EXCEPT !.parent[g] = IF guarded THEN oldparent ELSE @]
          ELSE tp_free(s, g))
            EXCEPT !.pyerr[t] = saved,
                   !.event = [cx EXCEPT !.kind = kind, !.into = ge,
                                        !.origin = origin, !.waited = g]],
        kind, ge, origin, PyNULL)

\* fault: the trace function is not called (C23 must notice)
g_calltrace_never(s, t, ev, origin, target) == s

\* fault: a trace function that raised stays installed
g_calltrace_keeps_hook(s, t, ev, origin, target) ==
    IF s.tracefunc[t] = "none" THEN s
    ELSE LET s1 == [s EXCEPT !.trace_log[t] =
                      Append(@, [ev |-> ev, origin |-> origin,
                                 target |-> target, cur |-> s.current[t]])]
         IN  IF s.tracefunc[t] = "raise"
             THEN [s1 EXCEPT !.pyerr[t] = PyErr("TraceError")]
             ELSE s1

\* g_calltrace when a trace function is set for thread t.  The trace
\* function of the model records its arguments, and the current greenlet of
\* the thread at the moment of the call, in trace_log (tracefunc "log");
\* the trace function "raise" raises TraceError after that: it is removed
\* and its exception replaces the pending one.
g_calltrace(s, t, ev, origin, target) ==
    IF s.tracefunc[t] = "none" THEN s
    ELSE LET s1 == [s EXCEPT !.trace_log[t] =
                      Append(@, [ev |-> ev, origin |-> origin,
                                 target |-> target, cur |-> s.current[t]])]
         IN  IF s.tracefunc[t] = "raise"
             THEN [s1 EXCEPT !.tracefunc[t] = "none",
                             !.pyerr[t] = PyErr("TraceError")]
             ELSE s1

\* fault: the arguments are released before they are read (C1 must notice)
g_switch_finish_released(s, t, g, origin) == <<release_args(s, g), PyNULL>>

\* g_switch_finish run by greenlet g on thread t, origin being the
\* greenlet that was current before: a pair <<state, result>>; the pending
\* exception, if any, stays set in pyerr; an exception of the trace function
\* takes the place of the result
g_switch_finish(s, t, g, origin) ==
    <<g_calltrace(release_args(s, g), t,
                  IF ArgsBool(s.switch_args[g]) THEN "switch" ELSE "throw",
                  origin, g),
      IF ArgsBool(s.switch_args[g]) /\ s.tracefunc[t] # "raise"
      THEN ResultOfArgs(s.switch_args[g]) ELSE PyNULL>>

\* After a stack switch into the suspended greenlet tgt: its innermost
\* pending call is the g_switchstack that suspended it; g_switch_finish and
\* the return to the user code of tgt.
FinishInTarget(s, t, tgt, origin, cx) ==
    IF s.frames[tgt] = <<>> \/ Top(s.frames[tgt]).k # "wait"
    THEN Res([s EXCEPT !.ub = TRUE, !.event = [cx EXCEPT !.kind = "ub", !.into = tgt]],
             "ub", tgt, origin, PyNULL)
    ELSE LET fr == Top(s.frames[tgt])
             fin == g_switch_finish(s, t, tgt, origin)
             s1 == [fin[1] EXCEPT !.frames[tgt] = Pop_(@), !.sp[t] = fr.sp]
         IN  IF fr.via = "kill"
             THEN DeallocTail(s1, t, tgt, fr.this, TRUE, fr.target, fr.err,
                              cx, "resume", origin)
             ELSE EndInUser(s1, t, tgt, fr.via, fin[2], cx, "resume", origin, fr.this)

\* Py_FatalError in the code of greenlet ge
AbortRes(s, cx, ge) ==
    Res([s EXCEPT !.aborted = TRUE,
                  !.event = [cx EXCEPT !.kind = "abort", !.into = ge]],
        "abort", ge, NULL, PyNULL)

UbRes(s, cx, into, kind) ==
    Res([s EXCEPT !.ub = TRUE, !.event = [cx EXCEPT !.kind = kind, !.into = into]],
        kind, into, NULL, PyNULL)

\* fault: inner_bootstrap returns when no parent took the result (C18 must
\* notice)
ran_out_of_parents_returns(s, g, cx) ==
    Res([s EXCEPT !.event = [cx EXCEPT !.kind = "ret", !.into = g]],
        "ret", g, NULL, PyNULL)

\* inner_bootstrap after its loop over the parents: "We ran out of parents,
\* cannot continue", Py_FatalError
ran_out_of_parents(s, g, cx) ==
    Res([s EXCEPT !.aborted = TRUE,
                  !.event = [cx EXCEPT !.kind = "abort", !.into = g]],
        "abort", g, NULL, PyNULL)

RECURSIVE Walk(_, _, _, _, _, _, _, _)
RECURSIVE ParentLoop(_, _, _, _, _, _)
RECURSIVE g_initialstub(_, _, _, _, _)
RECURSIVE AfterCall(_, _, _, _, _, _)

\* UserGreenlet::g_switch and MainGreenlet::g_switch called on `this` by
\* the code of greenlet ge running on thread t
g_switch(s, t, ge, this, via, cx) ==
    IF check_switch_allowed(s, t, this) # ""
    THEN Res([release_args(s, this) EXCEPT !.pyerr[t] = PyErr("GreenletError")],
             "throw", ge, NULL, PyNULL)
    ELSE Walk(s, t, ge, this, this, TRUE, via, cx)

\* inner_bootstrap from "jump back to parent" on: the loop over the parents
\* of the finished greenlet g, handing result to p
ParentLoop(s, t, g, p, result, cx) ==
    IF p = NULL
    THEN ran_out_of_parents(s, g, cx)
    ELSE AfterCall(g_switch([s EXCEPT !.switch_args[p] = ArgsFromObject(result)],
                            t, g, p, "finish", cx),
                   t, g, "finish", p, cx)

\* inner_bootstrap after the run function ended (or was never called):
\* result is the return value, or PyNULL with the exception in pyerr
InnerTail(s, t, g, result, cx) ==
    LET lost == result = PyNULL /\ s.pyerr[t].type = "GreenletExit"
                /\ ArgsBool(s.switch_args[g])
        s1 == IF lost THEN [s EXCEPT !.pyerr[t] = NoErr] ELSE s
        res1 == IF lost THEN single_result(ResultOfArgs(s.switch_args[g])) ELSE result
        he == g_handle_exit(release_args(s1, g), t, res1)
        s2 == [set_inactive(he[1], g) EXCEPT !.frames[g] = <<>>, !.fpc[g] = "ended"]
    IN  ParentLoop(s2, t, g, s2.parent[g], he[2], cx)

\* inner_bootstrap up to the call of run, entered on the new stack of g
inner_bootstrap(s, t, g, origin, cx) ==
    LET args0 == s.switch_args[g]
        \* "Turn trace errors into switch throws": args.CLEAR()
        args == IF s.tracefunc[t] = "raise" THEN EmptyArgs ELSE args0
        s1 == g_calltrace(
                  [set_active(s, g) EXCEPT
                      !.switch_args[g] = EmptyArgs,
                      !.run_attr[g] = FALSE,
                      !.frames[g] = <<>>,
                      !.mem = [a \in Addrs |-> IF a = s.sp[t] THEN g ELSE s.mem[a]]],
                  t, IF ArgsBool(args0) THEN "switch" ELSE "throw", origin, g)
        okf == args.kwargs = PyNULL /\ args.args.k = "tuple"
               /\ Len(args.args.items) = 1 /\ args.args.items[1].k = "int"
    IN  IF ~ArgsBool(args)
        THEN InnerTail(s1, t, g, PyNULL, cx)
        ELSE Res([s1 EXCEPT
                     !.run_calls[g] = @ + 1,
                     \* the interpreter makes the frame of run
                     !.tstate[t].frame = g,
                     !.fpc[g] = IF s.run_callable[g] # "f" THEN "none"
                                ELSE IF okf THEN "start" ELSE "raise",
                     !.fx[g] = IF s.run_callable[g] # "f" THEN PyNULL
                               ELSE IF okf THEN args.args.items[1]
                               ELSE PyExcValue("TypeError"),
                     !.event = [cx EXCEPT !.kind = "start", !.into = g,
                                          !.origin = origin,
                                          !.value = ResultOfArgs(args)]],
                 "start", g, origin, PyNULL)

\* the executing greenlet ge is suspended inside g_switchstack
PushWait(s, usersp, ge, this, via) ==
    IF active(s, ge)
    THEN [s EXCEPT !.frames[ge] =
             Append(@, Frame("wait", via, this, NULL, FALSE, EmptyArgs, NoErr, usersp))]
    ELSE s

\* g_switch after g_switchstack for the active greenlet target returned r;
\* usersp is the stack pointer of the caller's code
Switched(r, usersp, t, ge, this, target, via, cx) ==
    CASE r.k = "same" ->
           LET fin == g_switch_finish(r.s, t, target, r.origin)
           IN  Res(fin[1], IF fin[1].pyerr[t].type # "" THEN "throw" ELSE "ret",
                   ge, r.origin, fin[2])
      [] r.k = "pivot" ->
           FinishInTarget(PushWait(r.s, usersp, ge, this, via), t, target,
                          r.origin, cx)
      [] r.k = "overflow" -> r
      [] r.k = "abort" -> AbortRes(r.s, cx, ge)
      [] OTHER -> UbRes(r.s, cx, target, r.k)

\* The target resolution loop of UserGreenlet::g_switch ("find the real
\* target by ignoring dead greenlets, and if necessary starting a
\* greenlet"), from the iteration that looks at target.
Walk(s, t, ge, this, target, twm, via, cx) ==
    IF target = NULL THEN UbRes(s, cx, NULL, "ub")
    ELSE IF active(s, target)
    THEN Switched(g_switchstack(IF ~twm THEN MoveArgs(s, target, this) ELSE s,
                                t, target),
                  s.sp[t], t, ge, this, target, via, cx)
    ELSE IF ~started(s, target)
    THEN LET s1 == IF ~twm THEN MoveArgs(s, target, this) ELSE s
             fr == Frame("stub", via, this, target, twm,
                         s1.switch_args[target], s1.pyerr[t], s1.sp[t])
         IN  IF s.run_callable[target] = "getattr"
             THEN \* the lookup of run runs Python code: control is in the
                  \* code of ge until that code returns
                  Res([s1 EXCEPT !.frames[ge] = Append(@, fr),
                                 !.pyerr[t] = NoErr,
                                 !.event = [cx EXCEPT !.kind = "stub", !.into = ge]],
                      "stub", ge, NULL, PyNULL)
             ELSE g_initialstub(s1, t, ge, fr, cx)
    ELSE Walk(s, t, ge, this, s.parent[target], FALSE, via, cx)

\* fault: g_initialstub does not look whether its greenlet was started
\* meanwhile (C9 must notice)
StartedWhileInPython_never(s, t, target) == FALSE

\* g_initialstub of target throws GreenletStartedWhileInPython
StartedWhileInPython(s, t, target) ==
    check_switch_allowed(s, t, target) = "" /\ started(s, target)

\* g_initialstub after its g_switchstack returned r
Stubbed(r, t, ge, fr, cx) ==
    IF r.k = "start"
    THEN inner_bootstrap(PushWait(r.s, fr.sp, ge, fr.this, fr.via), t,
                         fr.target, r.origin, cx)
    ELSE IF r.k = "overflow" THEN r
    ELSE IF r.k = "abort" THEN AbortRes(r.s, cx, ge)
    ELSE UbRes(r.s, cx, fr.target, r.k)

\* UserGreenlet::run(): can the attribute run of g be resolved?  The run
\* of a subclass is found in the class; the one given to the constructor or
\* assigned is _run_callable, which inner_bootstrap clears.
run(s, g) == s.run_callable[g] = "getattr" \/ s.run_attr[g]

\* g_initialstub after the run attribute was resolved, run by greenlet ge;
\* fr holds the locals of g_switch and g_initialstub
g_initialstub(s, t, ge, fr, cx) ==
    LET s0 == [s EXCEPT !.sp[t] = fr.sp, !.pyerr[t] = fr.err]
    IN  IF ~run(s, fr.target)
        THEN \* PyRequireAttr throws; g_switch releases the args of `this`
             Res([release_args(s, fr.this) EXCEPT
                     !.sp[t] = fr.sp, !.pyerr[t] = PyErr("AttributeError")],
                 "throw", ge, NULL, PyNULL)
        ELSE IF check_switch_allowed(s0, t, fr.target) # ""
        THEN \* thrown through g_switch, which releases the args of `this`
             Res([release_args(s0, fr.this) EXCEPT !.pyerr[t] = PyErr("GreenletError")],
                 "throw", ge, NULL, PyNULL)
        ELSE IF StartedWhileInPython(s0, t, fr.target)
        THEN \* GreenletStartedWhileInPython: restore the args, retry the loop
             Walk([s0 EXCEPT !.switch_args[fr.target] = fr.args],
                  t, ge, fr.this, fr.target, fr.twm, fr.via, cx)
        ELSE IF s.run_callable[fr.target] = "broken"
        THEN \* BrokenGreenlet::g_switchstack returns -1: "start failed badly,
             \* restore greenlet state", then g_switch calls
             \* on_switchstack_or_initialstub_failure
             LET s1 == [ResetStackState(s0, fr.target) EXCEPT
                           !.main_greenlet[fr.target] = NULL,
                           !.pyerr[t] = IF s0.pyerr[t].type = ""
                                        THEN PyErr("SystemError") ELSE @]
                 s2 == release_args(s1, fr.this)
             IN  Res(IF ~fr.twm THEN murder_in_place(s2, fr.target) ELSE s2,
                     "throw", ge, NULL, PyNULL)
        ELSE Stubbed(g_switchstack(
                         [NewStackState(s0, fr.target, fr.sp, s0.current[t])
                             EXCEPT !.main_greenlet[fr.target] = t,
                                    \* set_initial_state
                                    !.python_state[fr.target].top_frame = NULL,
                                    !.python_state[fr.target].recursion_depth =
                                        s0.tstate[t].recursion_depth,
                                    !.exception_state[fr.target] = NoExceptionState,
                                    !.boots[fr.target] = @ + 1],
                         t, fr.target),
                     t, ge, fr, cx)

\* What the function that called g_switch does with a result that came
\* back without a stack switch.
AfterCall(r, t, ge, via, this, cx) ==
    IF r.k \in {"throw", "ret"}
    THEN IF via = "finish"
         THEN ParentLoop(r.s, t, ge, r.s.parent[this],
                         IF r.k = "ret" THEN r.val ELSE PyNULL, cx)
         ELSE EndInUser(r.s, t, ge, via, r.val, cx, "noop", r.origin, NULL)
    ELSE r

\* ---------------------------------------------------------------- actions
RECURSIVE Ancestor(_, _, _)
\* the greenlet n parent links above g (NULL when the chain ends before)
Ancestor(s, g, n) ==
    IF g = NULL \/ n = 0 THEN g ELSE Ancestor(s, s.parent[g], n - 1)

\* The loops that follow the parent links (in the parent setter, in
\* g_switch, in find_main_greenlet_in_lineage) end only when the chain does.
ChainsEnd ==
    \A g \in Greenlets : Ancestor(St, g, Cardinality(Greenlets)) = NULL

\* Thread t can run an operation: no undefined behaviour so far, the
\* process was not aborted, the thread has not ended.  The model follows
\* the program no further once a parent chain is cyclic.
Running(t) ==
    /\ ~ub /\ ~aborted /\ ops[t] > 0 /\ thread_state[t] # NULL
    /\ ChainsEnd
\* The code of the program can hold a reference to the greenlet object g:
\* it exists, and it is not waiting on a deleteme list, where the list
\* holds the only reference.
Alive(g) ==
    /\ created[g] /\ ~gone[g]
    /\ \A t \in Threads : \A i \in 1..Len(deleteme[t]) : deleteme[t][i] # g
\* the greenlet whose code thread t runs is free to do anything
FreeCode(g) == g \in Mains \/ run_callable[g] \in {"free", "getattr"}
InStub(g) == frames[g] # <<>> /\ Top(frames[g]).k = "stub"

Step(s, ev) == Install([s EXCEPT !.ops[ev.thread] = @ - 1, !.event = ev])
StepRes(r, t) == r.k # "overflow" /\ Install([r.s EXCEPT !.ops[t] = @ - 1])

RECURSIVE ChainHas(_, _, _)
\* does the parent chain starting at p contain g
ChainHas(s, p, g) ==
    IF p = NULL THEN FALSE
    ELSE IF p = g THEN TRUE
    ELSE ChainHas(s, s.parent[p], g)

RECURSIVE ChainRootMain(_, _)
\* UserGreenlet::parent(new_parent): main_greenlet() of the last greenlet
\* on the chain that starts at p
ChainRootMain(s, p) ==
    IF s.parent[p] = NULL THEN s.main_greenlet[p]
    ELSE ChainRootMain(s, s.parent[p])

\* fault: the parent chain is not searched for the greenlet (C13 and C14
\* must notice)
SetParentError_no_cycle(s, g, p) ==
    IF g \in Mains THEN "AttributeError"
    ELSE IF ChainRootMain(s, p) = NULL
    THEN "ValueError: parent must not be garbage collected"
    ELSE IF started(s, g) /\ s.main_greenlet[g] # ChainRootMain(s, p)
    THEN "ValueError: parent cannot be on a different thread"
    ELSE ""

\* UserGreenlet::parent(new_parent) / MainGreenlet::parent(new_parent):
\* "" or the error it throws
SetParentError(s, g, p) ==
    IF g \in Mains THEN "AttributeError"
    ELSE IF ChainHas(s, p, g) THEN "ValueError: cyclic parent chain"
    ELSE IF ChainRootMain(s, p) = NULL
    THEN "ValueError: parent must not be garbage collected"
    ELSE IF started(s, g) /\ s.main_greenlet[g] # ChainRootMain(s, p)
    THEN "ValueError: parent cannot be on a different thread"
    ELSE ""

\* fault: the new greenlet gets the main greenlet of the thread as its
\* parent, whatever greenlet is current (C28 must notice)
Create_under_main(t, p, kind) ==
    /\ Running(t) /\ FreeCode(current[t]) /\ active(St, current[t])
    /\ \E u \in Users :
        /\ ~created[u]
        /\ \A v \in Users : v < u => created[v]
        /\ p # NULL => Alive(p)
        /\ LET s1 == [St EXCEPT !.created[u] = TRUE,
                                !.run_attr[u] = kind # "norun",
                                !.parent[u] = t,
                                !.run_callable[u] = kind]
               cx == Cx("create", t, current[t], u, EmptyArgs, "")
           IN  IF p # NULL /\ SetParentError(s1, u, p) # ""
               THEN Step(St, [cx EXCEPT !.kind = "error", !.into = current[t],
                                        !.raised = "ValueError"])
               ELSE Step(IF p # NULL THEN [s1 EXCEPT !.parent[u] = p] ELSE s1,
                         [cx EXCEPT !.kind = "done", !.into = current[t]])

\* green_new + green_init(run, parent): p = NULL means no parent argument
Create(t, p, kind) ==
    /\ Running(t) /\ FreeCode(current[t]) /\ active(St, current[t])
    /\ \E u \in Users :
        /\ ~created[u]
        /\ \A v \in Users : v < u => created[v]
        /\ p # NULL => Alive(p)
        /\ LET s1 == [St EXCEPT !.created[u] = TRUE,
                                !.run_attr[u] = kind # "norun",
                                !.parent[u] = current[t],
                                !.run_callable[u] = kind]
               cx == Cx("create", t, current[t], u, EmptyArgs, "")
           IN  IF p # NULL /\ SetParentError(s1, u, p) # ""
               THEN Step(St, [cx EXCEPT !.kind = "error", !.into = current[t],
                                        !.raised = "ValueError"])
               ELSE Step(IF p # NULL THEN [s1 EXCEPT !.parent[u] = p] ELSE s1,
                         [cx EXCEPT !.kind = "done", !.into = current[t]])

\* green_setparent
SetParent(t, g, p) ==
    /\ Running(t) /\ FreeCode(current[t]) /\ active(St, current[t])
    /\ Alive(g) /\ Alive(p)
    /\ LET cx == [Cx("setparent", t, current[t], g, EmptyArgs, "") EXCEPT !.arg = p]
           err == SetParentError(St, g, p)
       IN  IF err # ""
           THEN Step(St, [cx EXCEPT !.kind = "error", !.into = current[t],
                                    !.raised = err])
           ELSE Step([St EXCEPT !.parent[g] = p],
                     [cx EXCEPT !.kind = "done", !.into = current[t]])

\* user code that calls deeper: one more byte of the native stack
Push(t) ==
    /\ Running(t) /\ FreeCode(current[t]) /\ active(St, current[t])
    /\ sp[t] - 1 >= StackTop(t) - StackSize
    /\ Step([St EXCEPT !.sp[t] = @ - 1,
                       !.mem = [a \in Addrs |-> IF a = sp[t] - 1 THEN current[t]
                                                ELSE mem[a]]],
            [Cx("push", t, current[t], 0, EmptyArgs, "") EXCEPT !.kind = "done",
                                                         !.into = current[t]])

\* Native code called by the code of the current greenlet of t throws a C++
\* exception; what tells whether its type derives from std::exception, h is
\* the nearest frame of the native stack whose function has a matching
\* catch clause (NULL when there is none).  What no frame of the greenlet
\* catches leaves PyObject_Call in inner_bootstrap, which throws it on (the
\* build is not one for Windows); g_initialstub ends the process for a
\* std::exception and throws every other exception on, into the frames
\* above its mark.
NativeThrow(t, what, h) ==
    /\ Running(t) /\ FreeCode(current[t]) /\ active(St, current[t])
    /\ frames[current[t]] = <<>>
    /\ h # NULL => (h \in Addrs /\ h >= sp[t] /\ h < StackTop(t) /\ mem[h] # 0)
    /\ LET g == current[t]
           cx == [Cx("nthrow", t, g, g, EmptyArgs, what) EXCEPT !.arg = h]
       IN  IF h # NULL /\ h < RegionTop(St, g)
           THEN Step([St EXCEPT !.sp[t] = h],
                     [cx EXCEPT !.kind = "caught", !.into = mem[h]])
           ELSE IF g \in Mains \/ what = "std" \/ h = NULL
           THEN Step([St EXCEPT !.aborted = TRUE],
                     [cx EXCEPT !.kind = "abort", !.into = g])
           ELSE Step([St EXCEPT !.ub = TRUE, !.sp[t] = h],
                     [cx EXCEPT !.kind = "caught", !.into = mem[h]])

\* green_switch(target, *args, **kwargs) called in state s by the code of
\* the current greenlet of thread t
green_switch(s, t, target, args) ==
    AfterCall(g_switch([s EXCEPT !.switch_args[target] = args], t, s.current[t],
                       target, "switch",
                       Cx("switch", t, s.current[t], target, args, "")),
              t, s.current[t], "switch", target,
              Cx("switch", t, s.current[t], target, args, ""))

Switch(t, target, args) ==
    /\ Running(t) /\ Alive(target) /\ active(St, current[t])
    /\ FreeCode(current[t])
    /\ StepRes(green_switch(St, t, target, args), t)

\* fault: GreenletExit is turned into a value whatever the target is
throw_greenlet_always_handles(s, t, target, cx) ==
    LET he == g_handle_exit(s, t, PyNULL)
    IN  AfterCall(g_switch([he[1] EXCEPT
                               !.switch_args[target] = ArgsFromObject(he[2])],
                           t, s.current[t], target, "throw", cx),
                  t, s.current[t], "throw", target, cx)

\* throw_greenlet, the exception being set (PyErr_Restore) in s
throw_greenlet(s, t, target, cx) ==
    LET he == IF started(s, target) /\ ~active(s, target)
              THEN g_handle_exit(s, t, PyNULL)
              ELSE <<s, PyNULL>>
    IN  AfterCall(g_switch([he[1] EXCEPT
                               !.switch_args[target] = ArgsFromObject(he[2])],
                           t, s.current[t], target, "throw", cx),
                  t, s.current[t], "throw", target, cx)

\* green_throw(target, exc)
green_throw(s, t, target, exc) ==
    throw_greenlet([s EXCEPT !.pyerr[t] = PyErr(exc)], t, target,
                   Cx("throw", t, s.current[t], target, EmptyArgs, exc))

Throw(t, target, exc) ==
    /\ Running(t) /\ Alive(target) /\ active(St, current[t])
    /\ FreeCode(current[t])
    /\ StepRes(green_throw(St, t, target, exc), t)

\* The code that resolves the run attribute returns into g_initialstub.
\* (A greenlet that is resolving the run attribute of a parent while it
\* finishes does nothing else in between.)
GetattrReturn(t) ==
    /\ Running(t) /\ InStub(current[t])
    /\ LET g == current[t]
           fr == Top(frames[g])
           cx == [Cx("getattr", t, g, fr.this, fr.args, "") EXCEPT
                     !.retried = StartedWhileInPython(St, t, fr.target)]
       IN  StepRes(AfterCall(g_initialstub([St EXCEPT !.frames[g] = Pop_(@)],
                                           t, g, fr, cx),
                             t, g, fr.via, fr.this, cx), t)

\* The run function of the current greenlet of t returns out (an int) or
\* raises out (an exception value): inner_bootstrap from args.CLEAR() on.
run_ended(s, t, out) ==
    InnerTail([s EXCEPT !.sp[t] = IF s.current[t] \in Mains THEN StackTop(t)
                                  ELSE s.stack_stop[s.current[t]] - 1,
                        !.tstate[t].frame = NULL,
                        !.pyerr[t] = IF out.k = "int" THEN NoErr ELSE PyErr(out.k)],
              t, s.current[t], IF out.k = "int" THEN out ELSE PyNULL,
              Cx("finish", t, s.current[t], s.current[t],
                 IF out.k = "int" THEN ArgsFromObject(out) ELSE EmptyArgs,
                 IF out.k = "int" THEN "" ELSE out.k))

\* a run function that is free code ends
Finish(t, out) ==
    /\ Running(t) /\ current[t] \in Users /\ active(St, current[t])
    /\ frames[current[t]] = <<>>
    /\ FreeCode(current[t])
    /\ StepRes(run_ended(St, t, out), t)

\* The next step of the run function f(x) = switch(R, x*2); return x+1, R
\* being the main greenlet of its thread: its switch, its return, or the
\* end of f by the exception that its call or its switch raised.
RunF(t) ==
    /\ Running(t) /\ current[t] \in Users /\ active(St, current[t])
    /\ run_callable[current[t]] = "f"
    /\ LET g == current[t]
       IN  CASE fpc[g] = "start" ->
                  StepRes(green_switch(St, t, main_greenlet[g],
                                       ArgsOf(PyTuple(<<PyInt(fx[g].n * 2)>>),
                                              PyNULL)), t)
             [] fpc[g] = "ret" -> StepRes(run_ended(St, t, PyInt(fx[g].n + 1)), t)
             [] fpc[g] = "raise" -> StepRes(run_ended(St, t, fx[g]), t)
             [] OTHER -> FALSE

\* mod_settrace(callback): the trace function of the running thread is
\* replaced (f = "none" stands for settrace(None))
SetTrace(t, f) ==
    /\ Running(t) /\ FreeCode(current[t]) /\ active(St, current[t])
    /\ tracefunc[t] # f
    /\ Step([St EXCEPT !.tracefunc[t] = f],
            [Cx("settrace", t, current[t], 0, EmptyArgs, "") EXCEPT
                !.kind = "done", !.into = current[t]])

PyBool(b) == [k |-> "bool", n |-> IF b THEN 1 ELSE 0, items |-> <<>>]

\* green_getdead
GetDead(t, g) ==
    /\ Running(t) /\ FreeCode(current[t]) /\ active(St, current[t])
    /\ Alive(g)
    /\ Step(green_not_dead(St, g)[1],
            [Cx("getdead", t, current[t], g, EmptyArgs, "") EXCEPT
                !.kind = "done", !.into = current[t],
                !.value = PyBool(~green_not_dead(St, g)[2])])

\* green_setrun: UserGreenlet::run(nrun) and MainGreenlet::run(nrun)
SetRun(t, g) ==
    /\ Running(t) /\ FreeCode(current[t]) /\ active(St, current[t])
    /\ Alive(g)
    /\ IF g \in Mains \/ started(St, g)
       THEN Step(St, [Cx("setrun", t, current[t], g, EmptyArgs, "") EXCEPT
                         !.kind = "error", !.into = current[t],
                         !.raised = "AttributeError"])
       ELSE Step([St EXCEPT !.run_attr[g] = TRUE],
                 [Cx("setrun", t, current[t], g, EmptyArgs, "") EXCEPT
                     !.kind = "done", !.into = current[t]])

\* green_setcontext, Greenlet::context(given): g.gr_context = c.  A greenlet
\* is_currently_running_in_some_thread when it is active and has no top
\* frame saved.
SetContext(t, g, c) ==
    /\ Running(t) /\ FreeCode(current[t]) /\ active(St, current[t])
    /\ Alive(g)
    /\ IF active(St, g) /\ python_state[g].top_frame = NULL
       THEN IF current[t] # g
            THEN Step(St, [Cx("setcontext", t, current[t], g, EmptyArgs, "") EXCEPT
                              !.kind = "error", !.into = current[t],
                              !.raised = "ValueError"])
            ELSE Step([St EXCEPT !.tstate[t].context = c],
                      [Cx("setcontext", t, current[t], g, EmptyArgs, "") EXCEPT
                          !.kind = "done", !.into = current[t]])
       ELSE Step([St EXCEPT !.python_state[g].context = c],
                 [Cx("setcontext", t, current[t], g, EmptyArgs, "") EXCEPT
                     !.kind = "done", !.into = current[t]])

\* The interpreter runs code of the current greenlet of t that calls k
\* functions deep, enters a context and handles an exception: the fields of
\* the thread state that PythonState and ExceptionState capture change.
PyCode(t, k) ==
    /\ Running(t) /\ FreeCode(current[t]) /\ active(St, current[t])
    /\ Step([St EXCEPT !.tstate[t] =
                 [context |-> k, frame |-> 10 * k + current[t],
                  recursion_depth |-> k,
                  exc_info |-> IF k = 2 THEN 2 ELSE 1,
                  exc_state |-> k]],
            [Cx("pycode", t, current[t], current[t], EmptyArgs, "") EXCEPT
                !.kind = "done", !.into = current[t]])

\* green_getrun: UserGreenlet::run() and MainGreenlet::run()
GetRun(t, g) ==
    /\ Running(t) /\ FreeCode(current[t]) /\ active(St, current[t])
    /\ Alive(g)
    /\ IF g \in Mains \/ started(St, g) \/ ~St.run_attr[g]
       THEN Step(St, [Cx("getrun", t, current[t], g, EmptyArgs, "") EXCEPT
                         !.kind = "error", !.into = current[t],
                         !.raised = "AttributeError"])
       ELSE Step(St, [Cx("getrun", t, current[t], g, EmptyArgs, "") EXCEPT
                         !.kind = "done", !.into = current[t]])

\* fault: the main greenlet of g is not compared with that of the running
\* thread (C19 must notice)
belongs_to_thread_of_any(s, g, ts) ==
    ThreadStateOf(s, g) # NULL /\ ts # NULL

\* Greenlet::belongs_to_thread and UserGreenlet::belongs_to_thread; ts is
\* a thread or NULL
belongs_to_thread(s, g, ts) ==
    /\ ThreadStateOf(s, g) # NULL /\ ts # NULL
    /\ g \in Users => s.main_greenlet[g] = ts

\* The pending call of the killer ge got its frame in g_switch: it keeps
\* the ParentIsCurrentGuard and the saved exception.
KillFrame(r, ge, g, oldparent, saved) ==
    IF /\ r.s.frames[ge] # <<>>
       /\ Top(r.s.frames[ge]).via = "kill"
       /\ Top(r.s.frames[ge]).this = g
       /\ Top(r.s.frames[ge]).target = NULL
    THEN [r EXCEPT !.s.frames[ge][Len(r.s.frames[ge])].target = oldparent,
                   !.s.frames[ge][Len(r.s.frames[ge])].err = saved]
    ELSE r

\* g_switch came back to throw_GreenletExit_during_dealloc without a
\* stack switch
KillReturned(r, t, ge, g, oldparent, saved, cx) ==
    IF r.k \in {"throw", "ret"}
    THEN DeallocTail(r.s, t, ge, g, TRUE, oldparent, saved, cx, "noop", r.origin)
    ELSE r

\* fault: GreenletExit is thrown without the ParentIsCurrentGuard, the
\* parent of g stays what it was
throw_GreenletExit_without_guard(s, t, g, cx) ==
    KillReturned(
        KillFrame(g_switch([s EXCEPT !.pyerr[t] = PyErr("GreenletExit")],
                           t, s.current[t], g, "kill", cx),
                  s.current[t], g, s.parent[g], s.pyerr[t]),
        t, s.current[t], g, s.parent[g], s.pyerr[t], cx)

\* UserGreenlet::throw_GreenletExit_during_dealloc: the parent of g is the
\* current greenlet while GreenletExit is thrown into g
throw_GreenletExit_during_dealloc(s, t, g, cx) ==
    KillReturned(
        KillFrame(g_switch([s EXCEPT !.parent[g] = s.current[t],
                                     !.pyerr[t] = PyErr("GreenletExit")],
                           t, s.current[t], g, "kill", cx),
                  s.current[t], g, s.parent[g], s.pyerr[t]),
        t, s.current[t], g, s.parent[g], s.pyerr[t], cx)

\* Greenlet::deallocing_greenlet_in_thread, called with the thread state
\* cts of the running thread (or NULL), and what follows it in green_dealloc
deallocing_greenlet_in_thread(s, t, g, cts, cx) ==
    IF belongs_to_thread(s, g, cts)
    THEN throw_GreenletExit_during_dealloc(s, t, g, cx)
    ELSE IF ThreadStateOf(s, g) # NULL
    THEN \* delete_when_thread_running
         DeallocTail([s EXCEPT !.deleteme[ThreadStateOf(s, g)] = Append(@, g)],
                     t, s.current[t], g, FALSE, NULL, s.pyerr[t], cx, "done", NULL)
    ELSE DeallocTail(deactivate_and_free(s, g),
                     t, s.current[t], g, FALSE, NULL, s.pyerr[t], cx, "done", NULL)

\* fault: GreenletExit is thrown into every discarded greenlet (C15 must
\* notice)
green_dealloc_kills_any(s, t, g, cx) ==
    throw_GreenletExit_during_dealloc(s, t, g, cx)

\* green_dealloc of g, whose last reference thread t dropped
green_dealloc(s, t, g, cx) ==
    IF active(s, g) /\ started(s, g) /\ ~main(s, g)
    THEN deallocing_greenlet_in_thread(
             s, t, g, IF ThreadStateOf(s, g) # NULL THEN t ELSE NULL, cx)
    ELSE DeallocTail(s, t, s.current[t], g, FALSE, NULL, s.pyerr[t], cx, "done", NULL)

\* The code of the current greenlet of t drops the last reference to g.
Dealloc(t, g) ==
    /\ Running(t) /\ FreeCode(current[t]) /\ active(St, current[t])
    /\ Alive(g) /\ g \in Users /\ ~Referenced(St, g)
    /\ StepRes(green_dealloc(St, t, g,
                             Cx("dealloc", t, current[t], g, EmptyArgs, "")), t)

\* The thread t ends: ThreadState_DestroyNoGIL marks it dead and queues
\* its state.
ThreadExit(t) ==
    /\ ~ub /\ ~aborted /\ thread_state[t] # NULL
    /\ current[t] = t /\ frames[t] = <<>>
    /\ Install([St EXCEPT !.thread_state[t] = NULL,
                          !.thread_states_to_destroy = Append(@, t),
                          !.ops[t] = 0,
                          !.event = [Cx("exit", t, t, t, EmptyArgs, "") EXCEPT
                                        !.kind = "done", !.into = t]])

\* The allocator runs out of memory: from now on PyMem_Realloc returns NULL.
MemoryLow ==
    /\ ~ub /\ ~aborted /\ nomem = "no"
    /\ Install([St EXCEPT !.nomem = "low"])

RECURSIVE MurderAll(_, _)
\* clear_deleteme_list(murder = true): every greenlet of the list is made
\* to look dead and its reference is dropped
MurderAll(s, q) ==
    IF q = <<>> THEN s
    ELSE MurderAll(IF Referenced([s EXCEPT !.deleteme = [t \in Threads |-> <<>>]], Head(q))
                   THEN murder_in_place(s, Head(q))
                   ELSE tp_free(murder_in_place(s, Head(q)), Head(q)),
                   Tail(q))

\* ~ThreadState: the greenlets of the deleteme list and the current
\* greenlet are murdered
ThreadState_dtor(s, t) ==
    murder_in_place([MurderAll(s, s.deleteme[t]) EXCEPT !.deleteme[t] = <<>>],
                    s.current[t])

RECURSIVE DestroyQueueWithGIL(_)
\* ThreadState_DestroyNoGIL::DestroyQueueWithGIL: DestroyWithGIL of every
\* queued state, the last one first
DestroyQueueWithGIL(s) ==
    IF s.thread_states_to_destroy = <<>> THEN s
    ELSE DestroyQueueWithGIL(
             ThreadState_dtor(
                 [s EXCEPT !.thread_states_to_destroy = Pop_(@),
                           !.thread_state[Top(s.thread_states_to_destroy)] = NULL],
                 Top(s.thread_states_to_destroy)))

\* the pending call that ThreadState_DestroyNoGIL scheduled runs
DestroyQueue ==
    /\ ~ub /\ ~aborted /\ thread_states_to_destroy # <<>>
    /\ Install([DestroyQueueWithGIL(St) EXCEPT
                    !.event = [NoEvent EXCEPT !.op = "destroy", !.kind = "done"]])

\* ---------------------------------------------- the destroy queue, by steps
\* The same code as ThreadExit and DestroyQueue, one step for each
\* acquisition and release of thread_states_to_destroy_lock, so that the
\* ending threads (which do not hold the GIL) interleave with the pending
\* call that empties the queue.
\*   exit_pc[t]  "run", "lock" (waiting for the lock), "queue" (holding
\*               it, before queue_to_destroy), "unlock", "done"
\*   drain_pc    "idle", "lock", "test" (holding the lock, before the
\*               test of empty()), "unlock" (a state was taken), "break"
\*               (the queue was empty), "destroy" (DestroyWithGIL)

\* LockGuard: the mutex can be taken when nobody holds it
try_lock(s) == s.thread_states_to_destroy_lock = NULL

\* ThreadState_DestroyNoGIL(state) run by the ending thread t, one step:
\* the thread state pointer of the main greenlet is cleared; the lock is
\* taken; the state is queued and, when the queue now holds one state,
\* Py_AddPendingCall(DestroyQueueWithGIL) is called, with the given result
\* (0, or -1 when the interpreter's queue of pending calls is full); the
\* lock is released.
ExitStep(t, result) ==
    CASE exit_pc[t] = "run" ->
           /\ ~ub /\ ~aborted /\ thread_state[t] # NULL
           /\ current[t] = t /\ frames[t] = <<>>
           /\ Install([St EXCEPT !.thread_state[t] = NULL,
                                 !.ops[t] = 0,
                                 !.exit_pc[t] = "lock",
                                 !.event = [Cx("exit", t, t, t, EmptyArgs, "")
                                              EXCEPT !.kind = "done", !.into = t]])
      [] exit_pc[t] = "lock" ->
           /\ try_lock(St)
           /\ Install([St EXCEPT !.thread_states_to_destroy_lock = t,
                                 !.exit_pc[t] = "queue"])
      [] exit_pc[t] = "queue" ->
           Install([St EXCEPT !.thread_states_to_destroy = Append(@, t),
                              !.pending_calls =
                                  IF Len(thread_states_to_destroy) = 0 /\ result = 0
                                  THEN @ + 1 ELSE @,
                              !.exit_pc[t] = "unlock"])
      [] exit_pc[t] = "unlock" ->
           Install([St EXCEPT !.thread_states_to_destroy_lock =
                                  IF @ = t THEN NULL ELSE @,
                              !.exit_pc[t] = "done"])
      [] OTHER -> FALSE

\* the interpreter makes a pending call of DestroyQueueWithGIL
DrainCall ==
    /\ ~ub /\ ~aborted
    /\ pending_calls > 0 /\ drain_pc = "idle"
    /\ Install([St EXCEPT !.pending_calls = @ - 1, !.drain_pc = "lock"])

\* ThreadState_DestroyWithGIL::DestroyWithGIL(state): the pointer of the
\* main greenlet is cleared and the state is deleted
DestroyWithGIL(s, t) ==
    [ThreadState_dtor([s EXCEPT !.thread_state[t] = NULL], t) EXCEPT
        !.destroyed[t] = @ + 1]

\* DestroyQueueWithGIL, one step of its loop: the lock is taken; the
\* queue is tested and its last state taken; the lock is released; the
\* state is destroyed.  The lock holder Drainer is the pending call.
DrainStep ==
    CASE drain_pc = "lock" ->
           /\ try_lock(St)
           /\ Install([St EXCEPT !.thread_states_to_destroy_lock = Drainer,
                                 !.drain_pc = "test"])
      [] drain_pc = "test" ->
           Install(IF thread_states_to_destroy = <<>>
                   THEN [St EXCEPT !.drain_pc = "break"]
                   ELSE [St EXCEPT !.to_destroy = Top(thread_states_to_destroy),
                                   !.thread_states_to_destroy = Pop_(@),
                                   !.drain_pc = "unlock"])
      [] drain_pc \in {"unlock", "break"} ->
           Install([St EXCEPT !.thread_states_to_destroy_lock =
                                  IF @ = Drainer THEN NULL ELSE @,
                              !.drain_pc = IF drain_pc = "break" THEN "idle"
                                           ELSE "destroy"])
      [] drain_pc = "destroy" ->
           Install([DestroyWithGIL(St, to_destroy) EXCEPT
                       !.to_destroy = NULL,
                       !.drain_pc = "lock",
                       !.event = [NoEvent EXCEPT !.op = "destroy",
                                                 !.kind = "done",
                                                 !.named = to_destroy]])
      [] OTHER -> FALSE

\* mod_get_pending_cleanup_count: the size of the queue, read under the
\* lock
GetPendingCleanupCount(t) ==
    /\ Running(t) /\ FreeCode(current[t]) /\ active(St, current[t])
    /\ try_lock(St)
    /\ Step(St, [Cx("count", t, current[t], 0, EmptyArgs, "") EXCEPT
                    !.kind = "done", !.into = current[t],
                    !.value = PyInt(Len(thread_states_to_destroy))])

Arg5 == ArgsOf(PyTuple(<<PyInt(5)>>), PyNULL)
Arg100 == ArgsOf(PyTuple(<<PyInt(100)>>), PyNULL)

\* One thread; run functions are free code or the scripted f.
Next ==
    \/ \E p \in Users \cup {NULL}, kind \in {"free", "f"} : Create(1, p, kind)
    \/ \E g \in Users, p \in Greenlets : SetParent(1, g, p)
    \/ Push(1)
    \/ \E g \in Greenlets, a \in {Arg5, Arg100} : Switch(1, g, a)
    \/ \E g \in Greenlets, e \in {"Error", "GreenletExit"} : Throw(1, g, e)
    \/ \E out \in {PyInt(7), PyExcValue("Error")} : Finish(1, out)
    \/ RunF(1)

Spec == Init /\ [][Next]_vars

\* Two threads run greenlets; further threads only exist.
InitMT ==
    Boot([t \in Threads |-> IF t = 1 THEN MaxOpsT1
                            ELSE IF t = 2 THEN MaxOpsT2 ELSE 0])

NextMT ==
    \/ \E t \in Threads : Create(t, NULL, "free")
    \/ \E t \in Threads, g \in Users, p \in Greenlets : SetParent(t, g, p)
    \/ \E t \in Threads, g \in Greenlets : Switch(t, g, Arg5)
    \/ \E t \in Threads, g \in Greenlets : Throw(t, g, "Error")
    \/ \E t \in Threads : Finish(t, PyInt(7))

SpecMT == InitMT /\ [][NextMT]_vars

\* Two threads; the run attribute of every greenlet is looked up by Python
\* code, which may itself switch, and which another thread may interleave
\* with.
NextStub ==
    \/ \E t \in Threads : Create(t, NULL, "getattr")
    \/ \E t \in Threads, g \in Users, p \in Mains : SetParent(t, g, p)
    \/ \E t \in Threads, g \in Greenlets : Switch(t, g, Arg5)
    \/ \E t \in Threads, g \in Greenlets : Throw(t, g, "Error")
    \/ \E t \in Threads : GetattrReturn(t)
    \/ \E t \in Threads : Finish(t, PyInt(7))

SpecStub == InitMT /\ [][NextStub]_vars

\* Two threads; greenlets are discarded and threads end.
NextLife ==
    \/ \E t \in Threads : Create(t, NULL, "free")
    \/ \E t \in Threads, g \in Greenlets, p \in Greenlets : SetParent(t, g, p)
    \/ \E t \in Threads, g \in Greenlets : Switch(t, g, Arg5)
    \/ \E t \in Threads : Finish(t, PyExcValue("GreenletExit"))
    \/ \E t \in Threads, g \in Users : GetDead(t, g)
    \/ \E t \in Threads, g \in Greenlets : SetRun(t, g)
    \/ \E t \in Threads, g \in Greenlets : GetRun(t, g)
    \/ \E t \in Threads, g \in Users : Dealloc(t, g)
    \/ \E t \in Threads : ThreadExit(t)
    \/ DestroyQueue

SpecLife == InitMT /\ [][NextLife]_vars

\* Two threads that switch and throw, and that end.
NextExit ==
    \/ \E t \in Threads : Create(t, NULL, "free")
    \/ \E t \in Threads, g \in Users, p \in Greenlets : SetParent(t, g, p)
    \/ \E t \in Threads, g \in Greenlets : Switch(t, g, Arg5)
    \/ \E t \in Threads, g \in Greenlets : Throw(t, g, "Error")
    \/ \E t \in Threads : ThreadExit(t)
    \/ DestroyQueue

SpecExit == InitMT /\ [][NextExit]_vars

\* Two threads that end while the pending call empties the destroy queue.
InitQueue == Boot([t \in Threads |-> MaxOpsQueue])

NextQueue ==
    \/ \E t \in Threads : Create(t, NULL, "free")
    \/ \E t \in Threads, g \in Greenlets : Switch(t, g, Arg5)
    \/ \E t \in Threads, g \in Users, p \in Greenlets : SetParent(t, g, p)
    \/ \E t \in Threads : GetPendingCleanupCount(t)
    \/ \E t \in Threads, r \in {0, 0 - 1} : ExitStep(t, r)
    \/ DrainCall
    \/ DrainStep

SpecQueue == InitQueue /\ [][NextQueue]_vars

\* One thread whose switches are traced.
NextTrace ==
    \/ \E p \in Users \cup {NULL} : Create(1, p, "free")
    \/ \E g \in Greenlets : Switch(1, g, Arg5)
    \/ \E g \in Greenlets : Throw(1, g, "Error")
    \/ \E out \in {PyInt(7), PyExcValue("Error")} : Finish(1, out)
    \/ \E f \in {"none", "log", "raise"} : SetTrace(1, f)

SpecTrace == Init /\ [][NextTrace]_vars

\* One thread; switch is called with every shape of arguments.
NextArgs ==
    \/ Create(1, NULL, "free")
    \/ \E g \in Greenlets,
          a \in {<<>>, <<PyInt(5)>>, <<PyTuple(<<PyInt(5)>>)>>,
                 <<PyInt(5), PyInt(100)>>},
          kw \in {PyNULL, PyDict(0), PyDict(1)} :
          Switch(1, g, ArgsOf(PyTuple(a), kw))

SpecArgs == Init /\ [][NextArgs]_vars

\* One thread whose greenlets call native code that throws.
NextNative ==
    \/ Create(1, NULL, "free")
    \/ Push(1)
    \/ \E g \in Greenlets : Switch(1, g, Arg5)
    \/ \E what \in {"std", "nonstd"}, h \in Addrs \cup {NULL} :
          NativeThrow(1, what, h)

SpecNative == Init /\ [][NextNative]_vars

\* One thread; the run attribute of a greenlet is looked up by Python code
\* that may switch, with arguments of its own, and greenlets get other
\* greenlets as parents.
InitRace == Boot([t \in Threads |-> IF t = 1 THEN MaxOpsRace ELSE 0])

NextRace ==
    \/ \E kind \in {"free", "getattr"} : Create(1, NULL, kind)
    \/ \E g \in Users, p \in Users : SetParent(1, g, p)
    \/ \E g \in Greenlets : Switch(1, g, Arg5)
    \/ \E g \in Users : InStub(current[1]) /\ Switch(1, g, Arg100)
    \/ GetattrReturn(1)
    \/ Finish(1, PyInt(7))

SpecRace == InitRace /\ [][NextRace]_vars

\* One thread; first switches fail: a greenlet has no run, its parent is
\* changed while run is resolved, or it is an UnswitchableGreenlet with
\* force_switch_error set ("broken").
NextFail ==
    \/ \E kind \in {"free", "getattr", "norun", "broken"} : Create(1, NULL, kind)
    \/ \E g \in Users, p \in Greenlets : SetParent(1, g, p)
    \/ \E g \in Greenlets : Switch(1, g, Arg5)
    \/ GetattrReturn(1)
    \/ Finish(1, PyInt(7))

SpecFail == Init /\ [][NextFail]_vars

\* One thread; the code of the greenlets changes the bookkeeping of the
\* interpreter between the switches and assigns gr_context.
NextCtx ==
    \/ Create(1, NULL, "free")
    \/ \E g \in Greenlets : Switch(1, g, Arg5)
    \/ Finish(1, PyInt(7))
    \/ \E k \in 1..2 : PyCode(1, k)
    \/ \E g \in Users, c \in {NULL, 3} : SetContext(1, g, c)

SpecCtx == Init /\ [][NextCtx]_vars

\* One thread; greenlets are discarded while they are suspended.
InitKill == Boot([t \in Threads |-> IF t = 1 THEN MaxOpsKill ELSE 0])

NextKill ==
    \/ \E p \in Users \cup {NULL} : Create(1, p, "free")
    \/ \E g \in Users, p \in Greenlets : SetParent(1, g, p)
    \/ \E g \in Greenlets : Switch(1, g, Arg5)
    \/ \E out \in {PyInt(7), PyExcValue("GreenletExit")} : Finish(1, out)
    \/ \E g \in Users : Dealloc(1, g)

SpecKill == InitKill /\ [][NextKill]_vars

\* One thread; the allocator can run out of memory at any moment.
NextOOM ==
    \/ \E p \in Users \cup {NULL} : Create(1, p, "free")
    \/ Push(1)
    \/ \E g \in Greenlets : Switch(1, g, Arg5)
    \/ Finish(1, PyInt(7))
    \/ MemoryLow

SpecOOM == Init /\ [][NextOOM]_vars

TypeOK ==
    /\ \A g \in Greenlets : stack_start[g] \in {NULL, ActiveMark} \cup Addrs
    /\ \A t \in Threads : current[t] \in Greenlets
    /\ \A t \in Threads : ops[t] >= 0

\* ------------------------------------------------------------ properties
\* what a switch or throw call returns when it receives the arguments a
Payload(a) == single_result(ResultOfArgs(a))

RECURSIVE FirstLive(_, _)
\* the greenlet the loop of g_switch stops at when it starts from g: g or
\* its first ancestor that is not dead (NULL when there is none)
FirstLive(s, g) ==
    IF g = NULL THEN NULL
    ELSE IF dead(s, g) THEN FirstLive(s, s.parent[g])
    ELSE g

\* the step is an operation (and not a stuttering step)
Acted == ops' # ops

\* StackState of every greenlet, the current greenlets and the lifecycle
\* states are left alone
StacksUnchanged ==
    /\ stack_start' = stack_start /\ stack_stop' = stack_stop
    /\ stack_copy' = stack_copy /\ stack_prev' = stack_prev
    /\ current' = current /\ mem' = mem /\ sp' = sp
    /\ snap' = snap /\ put_back' = put_back

\* C1: round-trip switch.  When the last operation was switch(B, ...) called
\* by A and it gave control to B, and B now calls switch(A, v), then the
\* pending call of A returns v, A is current again and B stays active.
C1_RoundTrip ==
    [][\A A, B \in Greenlets :
         ( /\ A # B
           /\ event.op = "switch" /\ event.caller = A /\ event.named = B
           /\ event.kind \in {"resume", "start"} /\ event.into = B
           /\ Acted
           /\ event'.op = "switch" /\ event'.caller = B /\ event'.named = A )
         => ( /\ event'.kind = "resume" /\ event'.into = A
              /\ event'.waited = B
              /\ event'.raised = "" /\ event'.value = Payload(event'.given)
              /\ current'[event'.thread] = A
              /\ active(St', B) )]_vars

\* a greenlet that was switched into by main switched back, three
\* operations after the start
C1_Witness ==
    /\ ops[1] = MaxOps - 3
    /\ event.op = "switch" /\ event.kind = "resume"
    /\ event.caller \in Users /\ event.named = 1 /\ event.into = 1
    /\ event.waited = event.caller
    /\ event.value = PyInt(5)

\* C2: stack integrity.  Every suspended greenlet, and the greenlet that
\* was just resumed, has in its region [stack_start, stack_stop) - heap
\* copy first, native stack after it - the bytes that were on the native
\* stack when it was suspended; a resumed greenlet has all of them on the
\* native stack again.
C2_StackIntegrity ==
    \A g \in Greenlets :
        /\ ( /\ created[g] /\ active(St, g)
             /\ \A t \in Threads : current[t] # g )
           => RegionBytes(St, g) = snap[g]
        /\ (event.kind = "resume" /\ event.into = g)
           => (stack_copy[g] = <<>> /\ RegionBytes(St, g) = snap[g])

\* a greenlet was resumed whose bytes had been moved to the heap and were
\* put back
C2_Witness ==
    /\ event.kind = "resume" /\ put_back > 0
    /\ Len(snap[event.into]) > 1
    /\ RegionBytes(St, event.into) = snap[event.into]

\* C3: thread affinity of every stack switch.  A thread moves its stack
\* pointer only into a greenlet that it started itself, also when that
\* greenlet was reached from a dead named target through its parents.
C3_ThreadAffinity ==
    event.kind \in {"resume", "start", "xthread"}
        => main_greenlet[event.into] = event.thread

C5_OneCurrent ==
    [][\A t \in Threads :
         /\ ~aborted'
            => ( /\ active(St', current'[t])
                 /\ find_main_greenlet_in_lineage(St', current'[t]) = t )
         /\ current'[t] # current[t]
            => ( /\ event'.thread = t
                 /\ event'.kind \in {"resume", "start"}
                 /\ current'[t] = event'.into )]_vars

\* the outcome and the state the claims compare: who is current, the stack
\* and lifecycle states, the pending arguments, what the call that got
\* control returns or raises
SameOutcome(a, b) ==
    /\ a.current = b.current
    /\ a.stack_start = b.stack_start /\ a.stack_stop = b.stack_stop
    /\ a.stack_copy = b.stack_copy
    /\ a.switch_args = b.switch_args
    /\ a.ub = b.ub /\ a.aborted = b.aborted
    /\ a.event.kind = b.event.kind /\ a.event.into = b.event.into
    /\ a.event.value = b.event.value /\ a.event.raised = b.event.raised

\* C6: fallback to parent.  switch(d, args) for a dead d with an active
\* parent p gives the state and the outcome that switch(p, args) gives from
\* the same state.
C6_FallbackToParent ==
    [][\A d \in Users :
         ( /\ Acted
           /\ event'.op = "switch" /\ event'.named = d
           /\ dead(St, d) /\ parent[d] # NULL /\ active(St, parent[d]) )
         => SameOutcome(St',
                        green_switch(St, event'.thread, parent[d],
                                     event'.given).s)]_vars

C8_SwitchToCurrentNoop ==
    [][\A t \in Threads :
         ( /\ Acted
           /\ event'.thread = t /\ event'.named = current[t]
           /\ event'.op \in {"switch", "throw"} )
         => ( /\ StacksUnchanged
              /\ frames' = frames /\ switch_args' = switch_args
              /\ event'.into = current[t]
              /\ IF event'.op = "switch"
                 THEN /\ event'.kind = "noop" /\ event'.raised = ""
                      /\ event'.value = Payload(event'.given)
                 ELSE /\ event'.kind = "error"
                      /\ event'.raised = event'.exc )]_vars

\* C9: bootstrap exactly once.  No greenlet is bootstrapped twice and no
\* run function is called twice, whatever switches the code that resolves
\* the run attribute, or another thread, makes meanwhile; when g_initialstub
\* finds its greenlet started, nothing is bootstrapped and the attempt
\* ends as a switch to a started greenlet does: the greenlet, if it is
\* suspended, is resumed, and a greenlet that another thread started is
\* refused with GreenletError.
C9_BootstrapOnce ==
    [][/\ \A g \in Greenlets :
            /\ boots'[g] <= 1 /\ run_calls'[g] <= 1
            /\ started(St, g)
               => (started(St', g) /\ boots'[g] = boots[g]
                   /\ run_calls'[g] = run_calls[g])
       /\ \A t \in Threads :
            ( /\ Acted
              /\ event'.op = "getattr" /\ event'.thread = t
              /\ InStub(current[t])
              /\ started(St, Top(frames[current[t]]).target) )
            => ( /\ boots' = boots /\ run_calls' = run_calls
                 /\ IF main_greenlet[Top(frames[current[t]]).target] = t
                    THEN /\ event'.retried
                         /\ ( /\ active(St, Top(frames[current[t]]).target)
                              /\ Top(frames[current[t]]).target # current[t] )
                            => ( /\ event'.kind = "resume"
                                 /\ event'.into = Top(frames[current[t]]).target
                                 /\ current'[t] = event'.into )
                    ELSE /\ event'.kind = "error"
                         /\ event'.raised = "GreenletError"
                         /\ current' = current )]_vars

\* g_initialstub found its greenlet started by a switch made while run was
\* resolved, and resumed it
C9_Witness ==
    /\ event.op = "getattr" /\ event.retried /\ event.kind = "resume"
    /\ boots[event.into] = 1 /\ run_calls[event.into] = 1
    /\ event.into \in Users

\* the scenario of C10: A runs f, was started with 5 by the switch(A, 5) of
\* its parent, the main greenlet R
InScenario(A, R) ==
    /\ A \in Users /\ R \in Mains
    /\ run_callable[A] = "f" /\ fx[A] = PyInt(5)
    /\ parent[A] = R /\ event.caller = A /\ event.into = R
    /\ event.waited = A /\ event.kind = "resume"

\* the run function of the current greenlet of t returned the int v: the
\* greenlet is dead and v is what the pending call of p returns
Delivered(t, p, v) ==
    /\ dead(St', current[t])
    /\ event'.kind = "resume" /\ event'.into = p /\ current'[t] = p
    /\ event'.raised = "" /\ event'.value = v

ObservedDead(s, g) == ~green_not_dead(s, g)[2]

\* C11: dead is permanent.  A greenlet that shows dead - its run function
\* ended, it was killed, or it was deactivated by murder_in_place or
\* deactivate_and_free - shows dead after every later operation for as long
\* as the object exists: it is not bootstrapped again, its run function
\* is not called again and no operation gives control to it.
C11_DeadIsPermanent ==
    [][\A g \in Greenlets :
         (Alive(g) /\ ObservedDead(St, g) /\ ~gone'[g])
         => ( /\ ObservedDead(St', g)
              /\ boots'[g] = boots[g] /\ run_calls'[g] = run_calls[g]
              /\ \A t \in Threads : current'[t] = g => current[t] = g )]_vars

\* The lifecycle of a user greenlet told from what happened to it, not from
\* its StackState: it was never bootstrapped; or it was, and it runs or is
\* suspended; or it was, and its run function ended or its stack was thrown
\* away (fpc, the position in the run function, is "ended").
LifeNotStarted(g) == boots[g] = 0
LifeDead(g) == boots[g] > 0 /\ fpc[g] = "ended"

\* C12: as long as no undefined behaviour happened, a greenlet that was
\* never started has stack_start = NULL, stack_stop = NULL and no saved
\* bytes, and a dead greenlet has stack_start = NULL and no saved bytes: its
\* heap copy is freed when it dies.
C12_NoStackBytes ==
    ~ub =>
    \A g \in Users :
        /\ (created[g] /\ LifeNotStarted(g))
           => ( /\ stack_start[g] = NULL /\ stack_stop[g] = NULL
                /\ stack_saved(St, g) = 0 /\ stack_copy[g] = <<>> )
        /\ (created[g] /\ LifeDead(g))
           => ( /\ stack_start[g] = NULL
                /\ stack_saved(St, g) = 0 /\ stack_copy[g] = <<>> )

\* a greenlet that was suspended with its bytes in the heap showed dead
\* after its thread ended, next to a greenlet that was never started
C12_Witness ==
    /\ event.op = "getdead" /\ event.value = PyBool(TRUE)
    /\ LifeDead(event.named) /\ snap[event.named] # <<>>
    /\ stack_copy[event.named] = <<>>
    /\ \E h \in Users : created[h] /\ LifeNotStarted(h) /\ ~gone[h]

\* C13: tree acyclicity on set_parent.  Setting the parent of a user
\* greenlet c to c itself or to a greenlet whose parent chain contains c
\* raises ValueError("cyclic parent chain") and changes no parent.
C13_CyclicParentRejected ==
    [][\A c \in Users, p \in Greenlets :
         ( /\ Acted /\ event'.op = "setparent"
           /\ event'.named = c /\ event'.arg = p
           /\ ChainHas(St, p, c) )
         => ( /\ event'.kind = "error"
              /\ event'.raised = "ValueError: cyclic parent chain"
              /\ parent' = parent )]_vars

\* a greenlet was refused as the parent of its own parent
C13_Witness ==
    /\ event.op = "setparent" /\ event.kind = "error"
    /\ event.raised = "ValueError: cyclic parent chain"
    /\ event.arg \in Users /\ event.arg # event.named
    /\ parent[event.arg] = event.named

\* C14: the parent relation contains no cycle.  From every greenlet the
\* parent links lead to a greenlet without a parent in at most as many
\* steps as there are greenlets, also while a kill has put the current
\* greenlet in the place of the parent of the greenlet it kills.
C14_ParentAcyclic ==
    \A g \in Greenlets : Ancestor(St, g, Cardinality(Greenlets)) = NULL

\* C15: kill before start.  When the last reference to a greenlet that was
\* never switched to is dropped, the object is freed at once: no stack
\* switch happens, the current greenlet stays, run is not called, and the
\* greenlet never gets a stack_stop or a heap copy.
C15_KillBeforeStart ==
    [][\A g \in Users :
         ( /\ Acted /\ event'.op = "dealloc" /\ event'.named = g
           /\ boots[g] = 0 )
         => ( /\ event'.kind = "done" /\ gone'[g]
              /\ current' = current /\ sp' = sp /\ mem' = mem
              /\ boots'[g] = 0 /\ run_calls'[g] = 0
              /\ stack_stop[g] = NULL /\ stack_copy[g] = <<>>
              /\ stack_stop'[g] = NULL /\ stack_copy'[g] = <<>>
              /\ stack_start'[g] = NULL )]_vars

\* a greenlet that was never started was discarded
C15_Witness ==
    /\ event.op = "dealloc" /\ event.kind = "done"
    /\ gone[event.named] /\ boots[event.named] = 0
    /\ run_calls[event.named] = 0

C17_PivotFailureIsFatal ==
    [][/\ ~aborted
       /\ nomem' = "failed"
          => /\ aborted'
             /\ event'.kind = "abort" /\ event'.raised = ""
             /\ current' = current]_vars

\* a switch needed heap memory for the stack of its caller, got none, and
\* the process was aborted
C17_Witness ==
    /\ nomem = "failed" /\ aborted
    /\ event.op = "switch" /\ event.kind = "abort"

RECURSIVE NoneAllowed(_, _, _, _)
\* check_switch_allowed refuses, on thread t, the greenlet a and every
\* greenlet above it in the parent chain (n bounds the walk)
NoneAllowed(s, t, a, n) ==
    \/ a = NULL
    \/ /\ n > 0
       /\ check_switch_allowed(s, t, a) # ""
       /\ NoneAllowed(s, t, s.parent[a], n - 1)

\* C18: when the run function of g ends and no greenlet of the parent
\* chain of g accepts a switch from the thread of g, the process is
\* aborted: g stays the current greenlet of its thread, nothing is resumed
\* or started, and no pending call returns.
C18_NoParentLeftIsFatal ==
    [][\A g \in Users :
         ( /\ Acted /\ event'.op = "finish" /\ event'.caller = g
           /\ NoneAllowed(St, event'.thread, parent[g], Cardinality(Greenlets)) )
         => ( /\ aborted' /\ event'.kind = "abort"
              /\ current' = current
              /\ frames' = frames
              /\ boots' = boots /\ run_calls' = run_calls )]_vars

\* the run function of a greenlet ended while its parents belonged to
\* another thread, and the process was aborted
C18_Witness ==
    /\ aborted /\ event.op = "finish" /\ event.kind = "abort"
    /\ event.caller \in Users
    /\ parent[event.caller] # NULL
    /\ main_greenlet[parent[event.caller]] # event.thread

\* C19: the last reference to a started, active user greenlet g is dropped
\* by thread t.  (a) t is the thread of g: g is resumed with GreenletExit
\* raised in it.  (b) g belongs to another thread that still runs: nothing
\* is switched, g is appended to the deleteme list of its thread and stays
\* active.  (c) the thread of g has ended: no exception is raised, nothing
\* is switched and g is no longer active.  Only the thread of g ever runs
\* g.
C19_KillByThread ==
    [][\A g \in Users :
         ( /\ Acted /\ event'.op = "dealloc" /\ event'.named = g
           /\ active(St, g) /\ started(St, g) )
         => ( /\ main_greenlet[g] \in Threads
              /\ IF thread_state[main_greenlet[g]] = NULL
                 THEN /\ ~active(St', g)
                      /\ stack_copy'[g] = <<>>
                      /\ event'.kind = "done" /\ event'.raised = ""
                      /\ current' = current /\ deleteme' = deleteme
                 ELSE IF main_greenlet[g] = event'.thread
                 THEN /\ event'.kind = "resume" /\ event'.into = g
                      /\ event'.raised = "GreenletExit"
                      /\ current' = [current EXCEPT ![event'.thread] = g]
                      /\ deleteme' = deleteme
                 ELSE /\ event'.kind = "done" /\ event'.raised = ""
                      /\ current' = current
                      /\ deleteme' = [deleteme EXCEPT ![main_greenlet[g]] =
                                                         Append(@, g)]
                      /\ active(St', g) /\ StacksUnchanged
              /\ \A t \in Threads : t # main_greenlet[g] => current'[t] # g )]_vars

\* a running thread dropped the last reference to a suspended greenlet of
\* another running thread, which now waits on the list of its thread
C19_Witness ==
    /\ event.op = "dealloc" /\ event.kind = "done"
    /\ event.named \in Users
    /\ main_greenlet[event.named] \in Threads
    /\ main_greenlet[event.named] # event.thread
    /\ thread_state[main_greenlet[event.named]] # NULL
    /\ deleteme[main_greenlet[event.named]] # <<>>
    /\ Top(deleteme[main_greenlet[event.named]]) = event.named
    /\ active(St, event.named)

\* C20: after a thread has ended (the thread state pointer of its main
\* greenlet is cleared), a switch that would give control to a greenlet of
\* that thread raises GreenletError: no stack is switched and the thread
\* state that is gone is not used.
C20_NoSwitchIntoEndedThread ==
    [][\A g \in Greenlets :
         ( /\ Acted /\ event'.op \in {"switch", "throw"} /\ event'.named = g
           /\ FirstLive(St, g) # NULL
           /\ find_main_greenlet_in_lineage(St, FirstLive(St, g)) # NULL
           /\ thread_state[find_main_greenlet_in_lineage(St, FirstLive(St, g))] = NULL )
         => ( /\ event'.kind = "error" /\ event'.raised = "GreenletError"
              /\ StacksUnchanged
              /\ ~ub' )]_vars

\* C21: every thread state that was queued is taken from the queue and
\* destroyed by the pending call DestroyQueueWithGIL.  As a property of
\* states: whenever nobody holds the lock and a thread state is in the
\* queue, a call of DestroyQueueWithGIL is pending or is running (it will
\* test the queue again); a thread state is destroyed at most once.
C21_QueuedIsDrained ==
    /\ ( /\ thread_states_to_destroy_lock = NULL
         /\ thread_states_to_destroy # <<>> )
       => (pending_calls > 0 \/ drain_pc \in {"lock", "destroy"})
    /\ \A t \in Threads : destroyed[t] <= 1

\* the ending thread t, or the pending call, is between taking and
\* releasing the lock: where the queue is pushed to, tested and popped
ExitInLock(t) == exit_pc[t] \in {"queue", "unlock"}
DrainInLock == drain_pc \in {"test", "unlock", "break"}

\* Whoever is between taking and releasing the lock holds it, so at most
\* one of them is; the lock is not held by the pending call while it
\* destroys a thread state.
LockDiscipline ==
    /\ \A t \in Threads : ExitInLock(t) => thread_states_to_destroy_lock = t
    /\ DrainInLock => thread_states_to_destroy_lock = Drainer
    /\ Cardinality({t \in Threads : ExitInLock(t)})
           + (IF DrainInLock THEN 1 ELSE 0) <= 1
    /\ drain_pc = "destroy" => thread_states_to_destroy_lock # Drainer

\* the size of the queue is read while nobody else is inside the lock
CountInLock ==
    (Acted /\ event'.op = "count")
        => (~DrainInLock /\ \A t \in Threads : ~ExitInLock(t))

\* an operation run by a thread leaves alone the StackState and the parent
\* of the started greenlets of every other running thread, and the current
\* greenlet of that thread
OthersUntouched ==
    Acted =>
      \A o \in Threads :
        (o # event'.thread /\ thread_state[o] # NULL)
        => /\ current'[o] = current[o]
           /\ \A g \in Greenlets :
                (started(St, g) /\ main_greenlet[g] = o)
                => /\ stack_start'[g] = stack_start[g]
                   /\ stack_stop'[g] = stack_stop[g]
                   /\ stack_copy'[g] = stack_copy[g]
                   /\ parent'[g] = parent[g]

\* C22 as stated: the destroy queue is only used under its lock, one
\* holder at a time, never while a thread state is destroyed; and an
\* operation of a thread changes nothing that belongs to another running
\* thread, its deleteme list included.
C22_LockAndOwnerOnly ==
    [][/\ LockDiscipline' /\ CountInLock /\ OthersUntouched
       /\ Acted => \A o \in Threads :
                     (o # event'.thread /\ thread_state[o] # NULL)
                     => deleteme'[o] = deleteme[o]]_vars

\* the calls of the trace function of thread t made by the step
TraceCalls(t) == SubSeq(trace_log'[t], Len(trace_log[t]) + 1, Len(trace_log'[t]))

\* C23: while a trace function is set for a thread, every switch that a
\* switch, a throw or the end of a run function completes on that thread
\* calls it once: the calls of one operation follow the control from the
\* greenlet that was current before to the one that is current after
\* (origin of the first, target of the last, each origin the target of the
\* call before); at each call the target is already the current greenlet;
\* the event of the last call is 'switch' when the code that gets control
\* receives a value and 'throw' when it receives an exception.
C23_TraceEverySwitch ==
    [][\A t \in Threads :
         ( /\ Acted /\ event'.thread = t
           /\ event'.op \in {"switch", "throw", "finish"}
           /\ tracefunc[t] = "log"
           /\ ~ub' /\ ~aborted' )
         => LET d == TraceCalls(t)
            IN  /\ current'[t] # current[t] => d # <<>>
                /\ d # <<>> =>
                     /\ d[1].origin = current[t]
                     /\ d[Len(d)].target = current'[t]
                     /\ \A i \in 1..(Len(d) - 1) : d[i + 1].origin = d[i].target
                /\ \A i \in 1..Len(d) : d[i].cur = d[i].target
                /\ event'.kind = "start" => d[Len(d)].ev = "switch"
                /\ event'.kind = "resume" =>
                     d[Len(d)].ev = (IF event'.raised = "" THEN "switch"
                                     ELSE "throw")]_vars

\* a traced thread threw an exception into a greenlet that was not
\* started: the trace function was called for the switch into it and for
\* the switch back, both with the event 'throw'
C23_Witness ==
    /\ event.op = "throw" /\ event.kind = "resume"
    /\ Len(trace_log[event.thread]) >= 2
    /\ LET q == trace_log[event.thread]
       IN  /\ q[Len(q)] = [ev |-> "throw", origin |-> event.origin,
                           target |-> event.into, cur |-> event.into]
           /\ q[Len(q) - 1] = [ev |-> "throw", origin |-> event.into,
                               target |-> event.origin, cur |-> event.origin]

\* what the documentation of switch promises for the arguments sa
DocumentedValue(sa) ==
    LET na == Len(sa.args.items)
        nk == IF sa.kwargs = PyNULL THEN 0 ELSE sa.kwargs.n
    IN  IF na = 0 /\ nk = 0 THEN PyNone
        ELSE IF na = 1 /\ nk = 0 THEN sa.args.items[1]
        ELSE IF na = 0 THEN sa.kwargs
        ELSE IF nk = 0 THEN sa.args
        ELSE PyTuple(<<sa.args, sa.kwargs>>)

\* C24: value received by a resumed greenlet.  The pending switch call of
\* an active greenlet that switch(*args, **kwargs) resumes returns None when
\* no arguments were given, the argument when exactly one positional
\* argument was given, and otherwise the args tuple and the kwargs dict:
\* only the dict when there are no positional arguments, only the tuple
\* when there are no keyword arguments.
C24_ValueReceived ==
    [][\A g \in Greenlets :
         ( /\ Acted
           /\ event'.op = "switch" /\ event'.named = g
           /\ active(St, g) /\ g # event'.caller
           /\ event'.kind = "resume" )
         => ( /\ event'.into = g /\ event'.raised = ""
              /\ event'.value = DocumentedValue(event'.given) )]_vars

\* the fields of greenlet g are the same before and after the step
GreenletUnchanged(g) ==
    /\ stack_start'[g] = stack_start[g] /\ stack_stop'[g] = stack_stop[g]
    /\ stack_copy'[g] = stack_copy[g] /\ stack_prev'[g] = stack_prev[g]
    /\ parent'[g] = parent[g] /\ main_greenlet'[g] = main_greenlet[g]
    /\ switch_args'[g] = switch_args[g] /\ frames'[g] = frames[g]
    /\ run_callable'[g] = run_callable[g] /\ run_attr'[g] = run_attr[g]

\* C25: setting run on a greenlet that was started (it is active or dead)
\* raises AttributeError and leaves the greenlet unchanged; setting run on
\* a greenlet that was never started succeeds; setting or reading run on a
\* main greenlet always raises.
C25_RunAfterStart ==
    [][\A g \in Greenlets :
         (Acted /\ event'.named = g /\ event'.op \in {"setrun", "getrun"})
         => IF g \in Mains
            THEN /\ event'.kind = "error"
                 /\ event'.raised = "AttributeError"
                 /\ GreenletUnchanged(g)
            ELSE event'.op = "setrun"
                 => IF LifeNotStarted(g)
                    THEN event'.kind = "done" /\ run_attr'[g]
                    ELSE /\ event'.kind = "error"
                         /\ event'.raised = "AttributeError"
                         /\ GreenletUnchanged(g)]_vars

RECURSIVE ChainEnd(_, _)
\* the last greenlet on the parent chain that starts at p
ChainEnd(s, p) ==
    IF s.parent[p] = NULL THEN p ELSE ChainEnd(s, s.parent[p])

\* C26: g.parent = p is rejected with an error, and the parent of g stays
\* what it was, when g was started and the main greenlet at the end of the
\* parent chain of p is not the main greenlet of g, when g is a main
\* greenlet, and when the parent chain of p does not end in a main greenlet.
C26_SetParentRejected ==
    [][\A g \in Greenlets, p \in Greenlets :
         ( /\ Acted
           /\ event'.op = "setparent" /\ event'.named = g /\ event'.arg = p
           /\ \/ g \in Mains
              \/ ChainEnd(St, p) \notin Mains
              \/ ~LifeNotStarted(g) /\ ChainEnd(St, p) # main_greenlet[g] )
         => ( /\ event'.kind = "error" /\ event'.raised # ""
              /\ parent'[g] = parent[g] )]_vars

\* C27: a C++ exception that leaves the run function of a greenlet is never
\* caught in a frame of another greenlet: g_initialstub intercepts it and
\* the process is aborted; and an exception that is thrown and caught in
\* the frames of one greenlet, also after the greenlet was resumed by a
\* switch, is caught by the handler of that greenlet at the depth of its
\* frame.
C27_NativeExceptionBoundary ==
    [][\A t \in Threads :
         (Acted /\ event'.op = "nthrow" /\ event'.thread = t)
         => IF event'.arg # NULL /\ event'.arg < RegionTop(St, current[t])
            THEN /\ event'.kind = "caught" /\ event'.into = current[t]
                 /\ current'[t] = current[t] /\ sp'[t] = event'.arg
                 /\ ~ub' /\ ~aborted'
            ELSE event'.kind = "abort" /\ aborted']_vars

C29_RaceKeepsPayload ==
    [][\A t \in Threads, c \in Users :
         ( /\ Acted
           /\ event'.op = "getattr" /\ event'.thread = t
           /\ InStub(current[t])
           /\ Top(frames[current[t]]).target = c
           /\ Top(frames[current[t]]).via = "switch"
           /\ ArgsBool(Top(frames[current[t]]).args)
           /\ active(St, c) /\ c # current[t] /\ main_greenlet[c] = t )
         => ( /\ boots' = boots /\ run_calls' = run_calls
              /\ event'.retried
              /\ event'.kind = "resume" /\ event'.into = c
              /\ current'[t] = c
              /\ event'.raised = ""
              /\ event'.value = Payload(Top(frames[current[t]]).args) )]_vars

\* C30: a failed first switch is rolled back.  When switch(...) ends with
\* an error in an attempt to start the greenlet c that was never started -
\* run cannot be resolved, check_switch_allowed fails after run was
\* resolved, or g_switchstack reports a failure - then the caller is still
\* current, the error is raised in the caller, the switch arguments of the
\* attempt are released, and c is not started: its StackState is empty and its main
\* greenlet is not set.
C30_FailedStartRolledBack ==
    [][\A t \in Threads, c \in Users :
         ( /\ Acted
           /\ event'.thread = t /\ event'.op \in {"switch", "getattr"}
           /\ event'.kind = "error"
           /\ ~started(St, c) /\ boots[c] = 0
           /\ IF InStub(current[t]) /\ event'.op = "getattr"
              THEN Top(frames[current[t]]).target = c
              ELSE /\ event'.op = "switch"
                   /\ FirstLive(St, event'.named) = c
                   /\ check_switch_allowed(St, t, event'.named) = "" )
         => ( /\ current' = current /\ event'.into = current[t]
              /\ event'.raised # ""
              /\ switch_args'[c] = EmptyArgs
              /\ switch_args'[event'.named] = EmptyArgs
              /\ ~started(St', c) /\ ~active(St', c)
              /\ stack_copy'[c] = <<>> /\ stack_prev'[c] = NULL
              /\ main_greenlet'[c] = NULL
              /\ boots'[c] = 0 )]_vars

\* the StackStates reached from g by following stack_prev, at most n of them
RECURSIVE PrevChain(_, _, _)
PrevChain(s, g, n) ==
    IF g = NULL \/ n = 0 THEN <<>>
    ELSE <<g>> \o PrevChain(s, s.stack_prev[g], n - 1)

\* C31: the stack-ownership chain.  Whenever user code runs in thread t, the
\* stack_prev links from the current greenlet of t visit only active
\* greenlets of t, with strictly increasing stack_stop, and end at the main
\* greenlet of t, whose stack_stop is the maximal sentinel and whose
\* stack_prev is null; the current greenlet is the first element and has
\* nothing saved in the heap.
C31_StackChain ==
    \A t \in Threads :
        (~ub /\ ~aborted /\ thread_state[t] # NULL) =>
        LET q == PrevChain(St, current[t], Cardinality(Greenlets) + 1)
        IN  /\ Len(q) \in 1..Cardinality(Greenlets)
            /\ q[1] = current[t]
            /\ stack_saved(St, current[t]) = 0
            /\ \A i \in 1..Len(q) :
                  /\ active(St, q[i])
                  /\ q[i] = t \/ main_greenlet[q[i]] = t
            /\ \A i \in 1..(Len(q) - 1) :
                  stack_stop[q[i]] < stack_stop[q[i + 1]]
            /\ q[Len(q)] = t
            /\ stack_stop[t] = MainStop /\ stack_prev[t] = NULL

\* a chain of three: a greenlet runs that was started by another greenlet
C31_Witness ==
    /\ ~ub /\ ~aborted
    /\ current[1] \in Users
    /\ stack_prev[current[1]] \in Users
    /\ stack_prev[stack_prev[current[1]]] = 1
    /\ \E g \in Users : active(St, g) /\ stack_saved(St, g) > 0

\* the first greenlet of the sequence q whose stack_stop is above lim
\* (at or above lim when orEqual), or NULL
NearestOwner(s, q, lim, orEqual) ==
    LET I == {i \in 1..Len(q) :
                \/ s.stack_stop[q[i]] > lim
                \/ orEqual /\ s.stack_stop[q[i]] = lim}
    IN  IF I = {} THEN NULL
        ELSE q[CHOOSE i \in I : \A j \in I : i <= j]

\* thread t went from its current greenlet straight into x: one stack
\* switch, nothing was started and nobody but the previous current died
ArrivesIn(t, x) ==
    /\ Acted /\ event'.thread = t
    /\ ~ub /\ ~aborted /\ ~ub' /\ ~aborted'
    /\ current[t] # x /\ current'[t] = x
    /\ boots' = boots
    /\ \A g \in Greenlets \ {current[t]} : dead(St', g) => dead(St, g)

\* the chain that copy_heap_to_stack scans: that of the previous current,
\* without the previous current when it is dying
ScannedChain(t) ==
    PrevChain(St, IF active(St', current[t]) THEN current[t]
                  ELSE stack_prev[current[t]],
              Cardinality(Greenlets) + 1)

\* C32 as stated: on arrival into x, x has nothing saved and no heap copy,
\* and x.stack_prev is the nearest StackState of the scanned chain whose
\* stack_stop is at or above x.stack_stop, or null.
C32_ArrivalPrevAtOrAbove ==
    [][\A t \in Threads, x \in Greenlets :
         ArrivesIn(t, x)
         => ( /\ stack_saved(St', x) = 0 /\ stack_copy'[x] = <<>>
              /\ stack_prev'[x] =
                   NearestOwner(St, ScannedChain(t), stack_stop'[x], TRUE) )]_vars

\* C32 amended: on arrival into x, x has nothing saved and no heap copy,
\* and x.stack_prev is the nearest StackState of the scanned chain whose
\* stack_stop is strictly above x.stack_stop, or null.
C32_ArrivalPrevAbove ==
    [][\A t \in Threads, x \in Greenlets :
         ArrivesIn(t, x)
         => ( /\ stack_saved(St', x) = 0 /\ stack_copy'[x] = <<>>
              /\ stack_prev'[x] =
                   NearestOwner(St, ScannedChain(t), stack_stop'[x], FALSE) )]_vars

\* a greenlet was resumed from another greenlet with the same stack_stop,
\* which is skipped: the resumed greenlet is chained to the main greenlet
C32_Witness ==
    /\ ~ub /\ ~aborted
    /\ event.kind = "resume" /\ event.caller \in Users
    /\ current[1] \in Users /\ current[1] # event.caller
    /\ active(St, event.caller)
    /\ stack_stop[event.caller] = stack_stop[current[1]]
    /\ stack_prev[current[1]] = 1
    /\ stack_saved(St, event.caller) > 0

\* thread t went from its current greenlet straight into x, resumed or
\* started by this one stack switch
SwitchesInto(t, x) ==
    /\ Acted /\ event'.thread = t
    /\ ~ub /\ ~aborted /\ ~ub' /\ ~aborted'
    /\ current[t] # x /\ current'[t] = x
    /\ \A g \in Greenlets \ {x} : boots'[g] = boots[g]
    /\ \A g \in Greenlets \ {current[t]} : dead(St', g) => dead(St, g)

\* C33: copy_stack_to_heap before the switch from c into x.  Every
\* StackState of c's chain whose stack_stop is below x.stack_stop has its
\* whole region saved, the first one whose stack_stop is at or above
\* x.stack_stop is saved at least up to x.stack_stop unless it is x itself,
\* a dying c is not saved at all, no StackState has fewer bytes saved than
\* before and the bytes saved before are kept as they were.
C33_SavedUpToTarget ==
    [][\A t \in Threads, x \in Greenlets :
         SwitchesInto(t, x)
         => LET c == current[t]
                q == ScannedChain(t)
                lim == stack_stop'[x]
                e == NearestOwner(St, q, lim, TRUE)
            IN  /\ \A i \in 1..Len(q) :
                      stack_stop[q[i]] < lim
                      => Len(stack_copy'[q[i]])
                           = stack_stop[q[i]] - stack_start'[q[i]]
                /\ (e # NULL /\ e # x)
                      => Len(stack_copy'[e]) >= lim - stack_start'[e]
                /\ ~active(St', c) => stack_copy'[c] = <<>>
                /\ \A g \in Greenlets \ {x} :
                      active(St', g)
                      => /\ Len(stack_copy'[g]) >= Len(stack_copy[g])
                         /\ SubSeq(stack_copy'[g], 1, Len(stack_copy[g]))
                              = stack_copy[g] ]_vars

\* a greenlet runs while one suspended greenlet is saved as a whole and
\* another one in part
C33_Witness ==
    /\ ~ub /\ ~aborted /\ event.kind \in {"resume", "start"}
    /\ current[1] = event.into
    /\ \E g, h \in Greenlets \ {current[1]} :
          /\ g # h /\ active(St, g) /\ active(St, h)
          /\ stack_saved(St, g) = RegionTop(St, g) - stack_start[g]
          /\ stack_saved(St, g) > 0
          /\ stack_saved(St, h) > 0
          /\ stack_saved(St, h) < RegionTop(St, h) - stack_start[h]

\* C34: a trace function that raises is removed and its error is the
\* outcome of the switch.  When a switch, a throw or the end of a run
\* function switches stacks on a thread whose trace function raises, the
\* thread has no trace function afterwards; the exception of the trace
\* function, in place of the value or exception that was on its way, is
\* raised in the greenlet that gets control; and a greenlet that was
\* switched into for the first time is dead without its run function
\* having been called.
C34_TraceErrorIsOutcome ==
    [][\A t \in Threads :
         ( /\ Acted /\ event'.thread = t
           /\ event'.op \in {"switch", "throw", "finish"}
           /\ tracefunc[t] = "raise"
           /\ current'[t] # current[t] \/ boots' # boots
           /\ ~ub' /\ ~aborted' )
         => ( /\ tracefunc'[t] = "none"
              /\ event'.into = current'[t]
              /\ event'.raised = "TraceError"
              /\ event'.value = PyNULL
              /\ run_calls' = run_calls
              /\ \A g \in Users :
                    boots'[g] # boots[g]
                    => /\ dead(St', g)
                       /\ switch_args'[g] = EmptyArgs )]_vars

\* the trace function raised on the first switch into a greenlet: the
\* greenlet is dead, its run function was not called, and the caller of
\* switch got the exception
C34_Witness ==
    /\ event.op = "switch" /\ event.kind = "resume"
    /\ event.raised = "TraceError"
    /\ event.named \in Users /\ dead(St, event.named)
    /\ boots[event.named] = 1 /\ run_calls[event.named] = 0
    /\ tracefunc[event.thread] = "none"
    /\ current[event.thread] = event.caller

C36_ThrowIntoDead ==
    [][\A t \in Threads, c \in Users :
         ( /\ Acted /\ event'.op = "throw" /\ event'.thread = t
           /\ event'.named = c
           /\ dead(St, c)
           /\ check_switch_allowed(St, t, c) = ""
           /\ ~ub' /\ ~aborted' )
         => LET p == FirstLive(St, parent[c])
            IN  /\ dead(St', c) /\ boots'[c] = boots[c]
                /\ run_calls'[c] = run_calls[c]
                /\ IF event'.exc = "GreenletExit"
                   THEN /\ event'.into = p /\ current'[t] = p
                        /\ event'.raised = ""
                        /\ event'.value = PyExcValue("GreenletExit")
                   ELSE /\ event'.raised = event'.exc
                        /\ event'.into = current'[t]
                        /\ IF active(St, p) THEN event'.into = p
                           ELSE /\ dead(St', p)
                                /\ run_calls'[p] = run_calls[p] ]_vars

\* C37: the parent chain stays on one thread.  For every greenlet c that
\* was started and is active, the parent links from c end at the main
\* greenlet of c: the greenlet that c falls back to, or that gets the
\* result of c, belongs to the thread c runs on.
C37_ParentChainOneThread ==
    (~ub /\ ~aborted) =>
    \A c \in Users :
        (created[c] /\ ~gone[c] /\ active(St, c))
        => /\ ChainEnd(St, c) = main_greenlet[c]
           /\ \A a \in Users :
                 (FirstLive(St, parent[c]) = a /\ started(St, a))
                 => main_greenlet[a] = main_greenlet[c]

\* what is saved for greenlet g, as the thread state it is written into
SavedFor(g) ==
    [context |-> python_state[g].context,
     frame |-> python_state[g].top_frame,
     recursion_depth |-> python_state[g].recursion_depth,
     exc_info |-> exception_state[g].exc_info,
     exc_state |-> exception_state[g].exc_state]

\* thread t switches stacks in this step
StackSwitch(t) ==
    /\ Acted /\ event'.thread = t
    /\ current'[t] # current[t] \/ boots' # boots

\* the capture, the restore and the clearing of C38, that what is saved
\* for a suspended greenlet is kept (but for the context that gr_context = c
\* assigns to it, when withSetter), and that nothing is captured or
\* restored outside a stack switch
ExecStateRoundTrip(withSetter) ==
    \A t \in Threads :
        /\ \* captured: what is saved for a greenlet that the step suspends
           \* is the thread state it left
           \A g \in Greenlets :
              ( StackSwitch(t) /\ current[t] = g /\ current'[t] # g
                /\ active(St', g) /\ ~ub' /\ ~aborted' )
              => /\ python_state'[g].context = tstate[t].context
                 /\ python_state'[g].top_frame = tstate[t].frame
                 /\ python_state'[g].recursion_depth = tstate[t].recursion_depth
                 /\ exception_state'[g].exc_info = tstate[t].exc_info
                 /\ exception_state'[g].exc_state = tstate[t].exc_state
        /\ \* kept while suspended, whatever the other greenlets do
           \A g \in Greenlets :
              ( Acted /\ active(St, g) /\ active(St', g)
                /\ current[main_greenlet[g]] # g
                /\ current'[main_greenlet[g]] # g
                /\ ~ub' /\ ~aborted' )
              => IF withSetter /\ event'.op = "setcontext"
                 THEN /\ exception_state'[g] = exception_state[g]
                      /\ python_state'[g].top_frame = python_state[g].top_frame
                      /\ python_state'[g].recursion_depth
                           = python_state[g].recursion_depth
                      /\ g # event'.named
                           => python_state'[g].context = python_state[g].context
                 ELSE /\ exception_state'[g] = exception_state[g]
                      /\ python_state'[g] = python_state[g]
        /\ \* restored and cleared when resumed
           \A g \in Greenlets :
              ( StackSwitch(t) /\ current[t] # g /\ current'[t] = g
                /\ event'.kind = "resume" /\ active(St, g)
                /\ ~ub' /\ ~aborted' )
              => /\ tstate'[t] = SavedFor(g)
                 /\ exception_state'[g] = NoExceptionState
        /\ \* only inside a stack switch
           ( Acted /\ event'.thread = t /\ ~StackSwitch(t)
             /\ event'.op \notin {"pycode", "finish"} )
           => /\ exception_state' = exception_state
              /\ \A g \in Greenlets :
                    /\ python_state'[g].top_frame = python_state[g].top_frame
                    /\ python_state'[g].recursion_depth
                         = python_state[g].recursion_depth
                    /\ (event'.op # "setcontext" \/ g # event'.named)
                         => python_state'[g].context = python_state[g].context
              /\ \A u \in Threads :
                    /\ tstate'[u].frame = tstate[u].frame
                    /\ tstate'[u].recursion_depth = tstate[u].recursion_depth
                    /\ tstate'[u].exc_info = tstate[u].exc_info
                    /\ tstate'[u].exc_state = tstate[u].exc_state
                    /\ (event'.op # "setcontext" \/ u # t)
                         => tstate'[u].context = tstate[u].context

\* C38 as stated: for a greenlet suspended by a switch and resumed later,
\* what is written back into the thread state on resume (recursion depth,
\* top frame, context, exception state) equals what was captured from the
\* thread state when it was suspended, whatever the other greenlets did in
\* between; the capture and the restore happen only inside a stack switch,
\* and the saved exception state is cleared once restored.
C38_ExecStateRoundTrip == [][ExecStateRoundTrip(FALSE)]_vars

\* C38 amended: the same, except that the assignment gr_context = c to a
\* suspended greenlet replaces the context saved for it, outside any stack
\* switch: that context is written back on resume.
C38_ExecStateRoundTripButSetter == [][ExecStateRoundTrip(TRUE)]_vars

\* a greenlet was resumed with the bookkeeping it was suspended with, which
\* differs from that of the greenlet that ran in between
C38_Witness ==
    /\ event.op = "switch" /\ event.kind = "resume" /\ event.into \in Users
    /\ tstate[1].recursion_depth = 2 /\ tstate[1].exc_info = 2
    /\ tstate[1].frame = 20 + event.into
    /\ python_state[event.caller].recursion_depth = 1
    /\ python_state[event.caller].top_frame = 10 + event.caller
    /\ exception_state[event.into] = NoExceptionState

\* C39: the discipline of the switch arguments.  At every stack switch the
\* target holds switch arguments or an exception is pending (never neither:
\* no_payload records a stack switch entered with neither), and when the
\* switch call is over and user code runs again, the named greenlet and the
\* greenlet that is current hold no switch arguments, also when the code that
\* resolves run switched meanwhile.
C39_PayloadDiscipline ==
    [][\A t \in Threads :
         ( /\ Acted /\ event'.thread = t
           /\ event'.op \in {"switch", "getattr"}
           /\ ~no_payload /\ ~ub' /\ ~aborted' )
         => /\ ~no_payload'
            /\ (event'.kind \in {"resume", "start", "noop", "error"})
                 => /\ switch_args'[event'.named] = EmptyArgs
                    /\ switch_args'[current'[t]] = EmptyArgs ]_vars

\* the greenlet ge is inside the kill of c: its innermost pending call is
\* the g_switch of throw_GreenletExit_during_dealloc
KillPending(ge, c) ==
    /\ frames[ge] # <<>>
    /\ Top(frames[ge]).via = "kill"
    /\ Top(frames[ge]).this = c

\* C40: a kill in the thread of the greenlet.  While GreenletExit is
\* delivered to c the parent of c is the greenlet that was current in the
\* killer, which keeps the parent c had; when c then ends, the killer runs
\* again and the parent c had is not resumed in its place; and once the
\* kill is over, c (unless it was freed) has the parent it had before the
\* kill, whatever happened meanwhile.
C40_KillRestoresParent ==
    [][( Acted /\ ~ub' /\ ~aborted' ) =>
         /\ \A c \in Users :
              ( /\ event'.op = "dealloc" /\ event'.named = c
                /\ current'[1] = c )
              => /\ parent'[c] = event'.caller
                 /\ frames'[event'.caller] # <<>>
                 /\ Top(frames'[event'.caller]).via = "kill"
                 /\ Top(frames'[event'.caller]).this = c
                 /\ Top(frames'[event'.caller]).target = parent[c]
                 /\ event'.raised = "GreenletExit"
         /\ \A c \in Users, ge \in Greenlets :
              ( /\ event'.op = "finish" /\ event'.caller = c
                /\ KillPending(ge, c) /\ parent[c] = ge )
              => /\ current'[1] = ge /\ event'.into = ge
                 /\ Len(frames'[ge]) = Len(frames[ge]) - 1
         /\ \A c \in Users, ge \in Greenlets :
              ( /\ KillPending(ge, c)
                /\ Len(frames'[ge]) < Len(frames[ge]) )
              => \/ gone'[c]
                 \/ parent'[c] = Top(frames[ge]).target
         /\ \A c \in Users :
              ( /\ event'.op = "dealloc" /\ event'.named = c
                /\ current'[1] # c /\ ~gone'[c] )
              => parent'[c] = parent[c] ]_vars

\* c was killed by the main greenlet while its parent was a greenlet that
\* is not dead; c ended and the main greenlet runs again (without the kill
\* the parent had taken the result), and c, still referred to, has its
\* parent back.
C40_Witness ==
    /\ event.op = "finish" /\ event.into = 1 /\ current[1] = 1
    /\ event.waited \in Users /\ event.caller = event.waited
    /\ ~gone[event.caller] /\ dead(St, event.caller)
    /\ parent[event.caller] \in Users
    /\ ~dead(St, parent[event.caller])
    /\ frames[1] = <<>>

====
